---- MODULE Spec2Model ----
(***************************************************************************)
(* quicktype, Go and PHP renderers.                                        *)
(*                                                                         *)
(* Part I  - the union codec the Go renderer emits (Golang.ts):            *)
(*           unmarshalUnion / marshalUnion and the UnmarshalJSON /         *)
(*           MarshalJSON methods emitUnion writes around them.             *)
(* Part II - the hydrator the PHP renderer emits (Php.ts): the emitted     *)
(*           hydrate / dehydrate functions and what they compute; the      *)
(*           renderers themselves: the dispatchers on a type, the names    *)
(*           handed to the resolver, and the files of a run of             *)
(*           emitSourceStructure (Golang.ts and Php.ts).                   *)
(***************************************************************************)
EXTENDS Integers, Sequences, FiniteSets, TLC

VARIABLES
    u,        \* Go: the union type, [members, nullable]
    x,        \* Go: the union value, one slot per member kind
    goRes,    \* Go: what the last call on x returned
    goPrev,   \* Go: x (or its populated slots) before the last decode
    graph,    \* PHP: the type graph the hydrator was generated from
    phpIn,    \* PHP: the value handed to the hydrator
    phpRes,   \* PHP: what the last hydrator call returned
    emission, \* PHP renderer: the calls of emitNested*Definition in progress
    dispatch, \* PHP renderer: a type handed to a dispatcher, and what came back
    naming,   \* both renderers: the names of one class and how far they are resolved
    files     \* both renderers: one run of emitSourceStructure and its files

goVars  == <<u, x, goRes, goPrev>>
phpVars == <<graph, phpIn, phpRes>>
renderVars == <<emission, dispatch, naming, files>>
vars    == <<u, x, goRes, goPrev, graph, phpIn, phpRes, emission, dispatch, naming, files>>

(***************************************************************************)
(* Part I.  Go union codec                                                 *)
(***************************************************************************)

primitiveValueTypeKinds == <<"integer", "double", "bool", "string">>
compoundTypeKinds       == <<"array", "class", "map", "enum">>

Range(s) == {s[i] : i \in DOMAIN s}

Kinds == Range(primitiveValueTypeKinds) \cup Range(compoundTypeKinds)

\* A nil pointer, nil slice or nil map: the slot is not populated.
Nil   == [k |-> "nil"]
NoErr == "nil"

\* ---- JSON texts, as parse trees ------------------------------------------
\* A number keeps its literal: integer digits, fraction digits, exponent.
NoExp == -1

Lit(i, f, e) == [int |-> i, frac |-> f, exp |-> e]
JNum(l)      == [k |-> "number", lit |-> l]
JBool(b)     == [k |-> "bool", b |-> b]
JStr(s)      == [k |-> "string", s |-> s]
JNull        == [k |-> "null"]
JObj(m)      == [k |-> "object", m |-> m]
JArr(es)     == [k |-> "array", elems |-> es]

\* ---- strconv, as json.Number.Int64 / Float64 call it ----------------------
MaxInt64Digits == <<9,2,2,3,3,7,2,0,3,6,8,5,4,7,7,5,8,0,7>>
MaxFloatExp10  == 308

RECURSIVE LexLeq(_, _)
LexLeq(a, b) ==
    IF a = <<>> THEN TRUE
    ELSE IF Head(a) < Head(b) THEN TRUE
    ELSE IF Head(a) > Head(b) THEN FALSE
    ELSE LexLeq(Tail(a), Tail(b))

FitsInt64(digits) ==
    \/ Len(digits) < Len(MaxInt64Digits)
    \/ Len(digits) = Len(MaxInt64Digits) /\ LexLeq(digits, MaxInt64Digits)

GoInt(digits) == [k |-> "int64", digits |-> digits]
GoFloat(ip, fp) == [k |-> "float64", ip |-> ip, fp |-> fp]

\* v.Int64(): strconv.ParseInt(literal, 10, 64)
ParseInt(lit) ==
    IF lit.frac # <<>> \/ lit.exp # NoExp THEN [ok |-> FALSE]
    ELSE IF ~FitsInt64(lit.int) THEN [ok |-> FALSE]
    ELSE [ok |-> TRUE, v |-> GoInt(lit.int)]

RECURSIVE Zeros(_)
Zeros(n) == IF n <= 0 THEN <<>> ELSE <<0>> \o Zeros(n - 1)

RECURSIVE TrimZeros(_)
TrimZeros(s) ==
    IF s = <<>> THEN <<>>
    ELSE IF s[Len(s)] = 0 THEN TrimZeros(SubSeq(s, 1, Len(s) - 1))
    ELSE s

\* v.Float64(): strconv.ParseFloat(literal, 64).  The sampled literals are
\* exactly representable, so the value is kept as its decimal digits.
ParseFloat(lit) ==
    LET e     == IF lit.exp = NoExp THEN 0 ELSE lit.exp
        all   == lit.int \o lit.frac
        point == Len(lit.int) + e
    IN  IF e > MaxFloatExp10 THEN [ok |-> FALSE]
        ELSE IF point >= Len(all)
             THEN [ok |-> TRUE, v |-> GoFloat(all \o Zeros(point - Len(all)), <<>>)]
             ELSE [ok |-> TRUE,
                   v  |-> GoFloat(SubSeq(all, 1, point),
                                  TrimZeros(SubSeq(all, point + 1, Len(all))))]

\* The number a literal denotes has no fractional part.
IsIntegral(lit) ==
    LET e == IF lit.exp = NoExp THEN 0 ELSE lit.exp
    IN  TrimZeros(SubSeq(lit.frac, e + 1, Len(lit.frac))) = <<>>

\* ---- encoding/json on the member types ----------------------------------
\* The member types of the modelled union: array is []int64, class is
\* struct{A int64 `json:"a"`}, map is map[string]string, enum is a string type.
ZeroInt == GoInt(<<0>>)

GoSlice(es)  == [k |-> "slice", elems |-> es]
GoStruct(a)  == [k |-> "struct", A |-> a]
GoMap(m)     == [k |-> "map", m |-> m]
GoEnum(s)    == [k |-> "enum", s |-> s]
GoBool(b)    == [k |-> "bool", b |-> b]
GoString(s)  == [k |-> "string", s |-> s]

TypeErr == "json: cannot unmarshal"

\* A JSON value stored into an int64: a type mismatch is recorded and the
\* target keeps its zero value, decoding goes on.
IntoInt64(j) ==
    IF j.k = "number" /\ ParseInt(j.lit).ok
    THEN [val |-> ParseInt(j.lit).v, err |-> NoErr]
    ELSE IF j.k = "null" THEN [val |-> ZeroInt, err |-> NoErr]
    ELSE [val |-> ZeroInt, err |-> TypeErr]

IntoString(j) ==
    IF j.k = "string" THEN [val |-> j.s, err |-> NoErr]
    ELSE IF j.k = "null" THEN [val |-> "", err |-> NoErr]
    ELSE [val |-> "", err |-> TypeErr]

FirstErr(errs) == IF \E e \in errs : e # NoErr THEN TypeErr ELSE NoErr

\* json.Unmarshal(data, p) for p the address of a member slot (or of c).
jsonUnmarshal(data, kind) ==
    CASE kind = "enum" ->
            [val |-> GoEnum(IntoString(data).val), err |-> IntoString(data).err]
      [] kind = "class" ->
            IF "a" \in DOMAIN data.m
            THEN [val |-> GoStruct(IntoInt64(data.m["a"]).val),
                  err |-> IntoInt64(data.m["a"]).err]
            ELSE [val |-> GoStruct(ZeroInt), err |-> NoErr]
      [] kind = "map" ->
            [val |-> GoMap([key \in DOMAIN data.m |-> IntoString(data.m[key]).val]),
             err |-> FirstErr({IntoString(data.m[key]).err : key \in DOMAIN data.m})]
      [] kind = "array" ->
            [val |-> GoSlice([i \in DOMAIN data.elems |-> IntoInt64(data.elems[i]).val]),
             err |-> FirstErr({IntoInt64(data.elems[i]).err : i \in DOMAIN data.elems})]

\* strconv.AppendFloat as the encoder's float formatting uses it: plain
\* digits below 1e21, exponent form from there on.
FloatExpFrom == 21

FormatFloat(f) ==
    IF Len(f.ip) > FloatExpFrom
    THEN Lit(<<Head(f.ip)>>, TrimZeros(Tail(f.ip) \o f.fp), Len(f.ip) - 1)
    ELSE Lit(f.ip, f.fp, NoExp)

\* json.Marshal(v) for v a populated slot.
jsonMarshal(v) ==
    CASE v.k = "int64"   -> JNum(Lit(v.digits, <<>>, NoExp))
      [] v.k = "float64" -> JNum(FormatFloat(v))
      [] v.k = "bool"    -> JBool(v.b)
      [] v.k = "string"  -> JStr(v.s)
      [] v.k = "slice"   -> JArr([i \in DOMAIN v.elems |->
                                     JNum(Lit(v.elems[i].digits, <<>>, NoExp))])
      [] v.k = "struct"  -> JObj([key \in {"a"} |-> JNum(Lit(v.A.digits, <<>>, NoExp))])
      [] v.k = "map"     -> JObj([key \in DOMAIN v.m |-> JStr(v.m[key])])
      [] v.k = "enum"    -> JStr(v.s)
      [] v.k = "nil"     -> JNull

\* ---- unmarshalUnion -------------------------------------------------------
\* pi, pf, pb, ps are "the pointer is not nil"; xr is the union value the
\* pointers point into; the result is the value after the call, the decoded
\* class c, and the two results (object, err) of the Go function.
Ret(xv, cv, obj, e) == [x |-> xv, c |-> cv, object |-> obj, err |-> e]

Bind(xv, kind, v) == [xv EXCEPT ![kind] = v]

\* Mutant: the primitive slots are not reset before decoding.
resetPrimitives_Skipped(xv, pi, pf, pb, ps) == xv

resetPrimitives(xv, pi, pf, pb, ps) ==
    [kind \in Kinds |->
        IF \/ kind = "integer" /\ pi
           \/ kind = "double"  /\ pf
           \/ kind = "bool"    /\ pb
           \/ kind = "string"  /\ ps
        THEN Nil ELSE xv[kind]]

\* Mutant: the double member is tried before the integer member.
caseNumber_FloatFirst(lit, xr, pi, pf) ==
    IF pf /\ ParseFloat(lit).ok
    THEN Ret(Bind(xr, "double", ParseFloat(lit).v), Nil, FALSE, NoErr)
    ELSE IF pi /\ ParseInt(lit).ok
         THEN Ret(Bind(xr, "integer", ParseInt(lit).v), Nil, FALSE, NoErr)
         ELSE IF pf THEN Ret(xr, Nil, FALSE, "Unparsable number")
         ELSE Ret(xr, Nil, FALSE, "Union does not contain number")

caseNumber(lit, xr, pi, pf) ==
    IF pi /\ ParseInt(lit).ok
    THEN Ret(Bind(xr, "integer", ParseInt(lit).v), Nil, FALSE, NoErr)
    ELSE IF pf
         THEN IF ParseFloat(lit).ok
              THEN Ret(Bind(xr, "double", ParseFloat(lit).v), Nil, FALSE, NoErr)
              ELSE Ret(xr, Nil, FALSE, "Unparsable number")
         ELSE Ret(xr, Nil, FALSE, "Union does not contain number")

caseBool(b, xr, pb) ==
    IF pb THEN Ret(Bind(xr, "bool", GoBool(b)), Nil, FALSE, NoErr)
    ELSE Ret(xr, Nil, FALSE, "Union does not contain bool")

\* Mutant: the string member is tried before the enum member.
caseString_StringFirst(data, xr, haveEnum, ps) ==
    IF ps THEN Ret(Bind(xr, "string", GoString(data.s)), Nil, FALSE, NoErr)
    ELSE IF haveEnum
         THEN Ret(Bind(xr, "enum", jsonUnmarshal(data, "enum").val), Nil, FALSE,
                  jsonUnmarshal(data, "enum").err)
         ELSE Ret(xr, Nil, FALSE, "Union does not contain string")

caseString(data, xr, haveEnum, ps) ==
    IF haveEnum
    THEN Ret(Bind(xr, "enum", jsonUnmarshal(data, "enum").val), Nil, FALSE,
             jsonUnmarshal(data, "enum").err)
    ELSE IF ps THEN Ret(Bind(xr, "string", GoString(data.s)), Nil, FALSE, NoErr)
    ELSE Ret(xr, Nil, FALSE, "Union does not contain string")

\* Mutant: null is accepted whether or not the union is nullable.
caseNil_Lenient(xr, nullable) == Ret(xr, Nil, FALSE, NoErr)

caseNil(xr, nullable) ==
    IF nullable THEN Ret(xr, Nil, FALSE, NoErr)
    ELSE Ret(xr, Nil, FALSE, "Union does not contain null")

\* Mutant: the map member is tried before the class member.
caseObject_MapFirst(data, xr, haveObject, haveMap) ==
    IF haveMap
    THEN Ret(Bind(xr, "map", jsonUnmarshal(data, "map").val), Nil, FALSE,
             jsonUnmarshal(data, "map").err)
    ELSE IF haveObject
         THEN Ret(xr, jsonUnmarshal(data, "class").val, TRUE,
                  jsonUnmarshal(data, "class").err)
         ELSE Ret(xr, Nil, FALSE, "Union does not contain object")

caseObject(data, xr, haveObject, haveMap) ==
    IF haveObject
    THEN Ret(xr, jsonUnmarshal(data, "class").val, TRUE, jsonUnmarshal(data, "class").err)
    ELSE IF haveMap
         THEN Ret(Bind(xr, "map", jsonUnmarshal(data, "map").val), Nil, FALSE,
                  jsonUnmarshal(data, "map").err)
         ELSE Ret(xr, Nil, FALSE, "Union does not contain object")

caseArray(data, xr, haveArray) ==
    IF haveArray
    THEN Ret(Bind(xr, "array", jsonUnmarshal(data, "array").val), Nil, FALSE,
             jsonUnmarshal(data, "array").err)
    ELSE Ret(xr, Nil, FALSE, "Union does not contain array")

unmarshalUnion(data, xv, pi, pf, pb, ps, haveArray, haveObject, haveMap, haveEnum, nullable) ==
    LET xr == resetPrimitives(xv, pi, pf, pb, ps)
    IN  CASE data.k = "number" -> caseNumber(data.lit, xr, pi, pf)
          [] data.k = "bool"   -> caseBool(data.b, xr, pb)
          [] data.k = "string" -> caseString(data, xr, haveEnum, ps)
          [] data.k = "null"   -> caseNil(xr, nullable)
          [] data.k = "object" -> caseObject(data, xr, haveObject, haveMap)
          [] data.k = "array"  -> caseArray(data, xr, haveArray)

\* ---- marshalUnion ---------------------------------------------------------
\* The arguments are the slots themselves; haveX is what MarshalJSON passes.
\* Mutant: the compound slots are looked at before the primitive ones.
marshalUnion_CompoundFirst(pi, pf, pb, ps, haveArray, pa, haveObject, pc, haveMap, pm, haveEnum, pe, nullable) ==
    IF haveArray THEN [out |-> jsonMarshal(pa), err |-> NoErr]
    ELSE IF haveObject THEN [out |-> jsonMarshal(pc), err |-> NoErr]
    ELSE IF haveMap THEN [out |-> jsonMarshal(pm), err |-> NoErr]
    ELSE IF haveEnum THEN [out |-> jsonMarshal(pe), err |-> NoErr]
    ELSE IF pi # Nil THEN [out |-> jsonMarshal(pi), err |-> NoErr]
    ELSE IF pf # Nil THEN [out |-> jsonMarshal(pf), err |-> NoErr]
    ELSE IF pb # Nil THEN [out |-> jsonMarshal(pb), err |-> NoErr]
    ELSE IF ps # Nil THEN [out |-> jsonMarshal(ps), err |-> NoErr]
    ELSE IF nullable THEN [out |-> JNull, err |-> NoErr]
    ELSE [out |-> Nil, err |-> "Union must not be null"]

marshalUnion(pi, pf, pb, ps, haveArray, pa, haveObject, pc, haveMap, pm, haveEnum, pe, nullable) ==
    IF pi # Nil THEN [out |-> jsonMarshal(pi), err |-> NoErr]
    ELSE IF pf # Nil THEN [out |-> jsonMarshal(pf), err |-> NoErr]
    ELSE IF pb # Nil THEN [out |-> jsonMarshal(pb), err |-> NoErr]
    ELSE IF ps # Nil THEN [out |-> jsonMarshal(ps), err |-> NoErr]
    ELSE IF haveArray THEN [out |-> jsonMarshal(pa), err |-> NoErr]
    ELSE IF haveObject THEN [out |-> jsonMarshal(pc), err |-> NoErr]
    ELSE IF haveMap THEN [out |-> jsonMarshal(pm), err |-> NoErr]
    ELSE IF haveEnum THEN [out |-> jsonMarshal(pe), err |-> NoErr]
    ELSE IF nullable THEN [out |-> JNull, err |-> NoErr]
    ELSE [out |-> Nil, err |-> "Union must not be null"]

\* ---- what emitUnion writes around them ------------------------------------
\* ifMember: the union type has a member of this kind.
ifMember(ut, kind) == kind \in ut.members

isNullableArg(ut) == ut.nullable

\* x.<field> = nil for every compound member (maybeAssignNil over
\* compoundTypeKinds).
\* Mutant: the compound slots are not reset before decoding.
maybeAssignNil_Skipped(ut, xv) == xv

maybeAssignNil(ut, xv) ==
    [kind \in Kinds |->
        IF kind \in Range(compoundTypeKinds) /\ ifMember(ut, kind) THEN Nil ELSE xv[kind]]

\* The body of the emitted UnmarshalJSON: the union value after the call and
\* the error returned.
UnmarshalJSONBody(ut, xv, data) ==
    LET x0 == maybeAssignNil(ut, xv)
        r  == unmarshalUnion(data, x0,
                             ifMember(ut, "integer"), ifMember(ut, "double"),
                             ifMember(ut, "bool"), ifMember(ut, "string"),
                             ifMember(ut, "array"), ifMember(ut, "class"),
                             ifMember(ut, "map"), ifMember(ut, "enum"),
                             isNullableArg(ut))
    IN  IF r.err # NoErr THEN [x |-> r.x, err |-> r.err]
        ELSE IF r.object /\ ifMember(ut, "class")
             THEN [x |-> Bind(r.x, "class", r.c), err |-> NoErr]
             ELSE [x |-> r.x, err |-> NoErr]

\* The body of the emitted MarshalJSON.
MarshalJSONBody(ut, xv) ==
    marshalUnion(IF ifMember(ut, "integer") THEN xv["integer"] ELSE Nil,
                 IF ifMember(ut, "double") THEN xv["double"] ELSE Nil,
                 IF ifMember(ut, "bool") THEN xv["bool"] ELSE Nil,
                 IF ifMember(ut, "string") THEN xv["string"] ELSE Nil,
                 ifMember(ut, "array") /\ xv["array"] # Nil, xv["array"],
                 ifMember(ut, "class") /\ xv["class"] # Nil, xv["class"],
                 ifMember(ut, "map") /\ xv["map"] # Nil, xv["map"],
                 ifMember(ut, "enum") /\ xv["enum"] # Nil, xv["enum"],
                 isNullableArg(ut))

\* ---- the union codec as a state machine ----------------------------------
\* A named union has at least two members besides null.
MinMembers == 2

Unions ==
    {[members |-> m, nullable |-> n] :
        m \in {s \in SUBSET Kinds : Cardinality(s) >= MinMembers}, n \in BOOLEAN}

\* The caller builds a union value by filling the exported fields of the
\* struct emitUnion declares; at most MaxPopulated of them here.
MaxPopulated == 2

Sample(kind) ==
    CASE kind = "integer" -> GoInt(<<7>>)
      [] kind = "double"  -> GoFloat(<<7>>, <<5>>)
      [] kind = "bool"    -> GoBool(TRUE)
      [] kind = "string"  -> GoString("red")
      [] kind = "array"   -> GoSlice(<<GoInt(<<7>>)>>)
      [] kind = "class"   -> GoStruct(GoInt(<<7>>))
      [] kind = "map"     -> GoMap("a" :> "red")
      [] kind = "enum"    -> GoEnum("red")

UnionValues(ut) ==
    {[kind \in Kinds |-> IF kind \in S THEN Sample(kind) ELSE Nil] :
        S \in {s \in SUBSET ut.members : Cardinality(s) <= MaxPopulated}}

TwoPow63Digits == <<9,2,2,3,3,7,2,0,3,6,8,5,4,7,7,5,8,0,8>>

NumberLiterals ==
    { Lit(<<7>>, <<>>, NoExp),            \* 7
      Lit(<<7>>, <<0>>, NoExp),           \* 7.0
      Lit(<<7>>, <<5>>, NoExp),           \* 7.5
      Lit(<<1>>, <<>>, 2),                \* 1e2
      Lit(TwoPow63Digits, <<>>, NoExp),   \* 9223372036854775808
      Lit(<<1>>, <<>>, 400) }             \* 1e400

NoKeys == [key \in {} |-> JNull]

Tokens ==
    {JNum(l) : l \in NumberLiterals}
    \cup {JBool(TRUE), JBool(FALSE), JStr("red"), JStr("zzz"), JNull}
    \cup {JObj(NoKeys), JObj("a" :> JNum(Lit(<<7>>, <<>>, NoExp))), JObj("a" :> JStr("x"))}
    \cup {JArr(<<>>), JArr(<<JNum(Lit(<<7>>, <<>>, NoExp))>>), JArr(<<JStr("x")>>)}

PhpIdle ==
    /\ graph = Nil /\ phpIn = Nil /\ phpRes = Nil
    /\ emission = Nil /\ dispatch = Nil /\ naming = Nil /\ files = Nil

GoInit ==
    /\ u \in Unions
    /\ x \in UnionValues(u)
    /\ goRes = [op |-> "new"]
    /\ goPrev = Nil
    /\ PhpIdle

UnmarshalJSON(data) ==
    /\ x' = UnmarshalJSONBody(u, x, data).x
    /\ goRes' = [op |-> "UnmarshalJSON", data |-> data,
                 err |-> UnmarshalJSONBody(u, x, data).err]
    /\ UNCHANGED <<u, goPrev, phpVars, renderVars>>

MarshalJSON ==
    /\ goRes' = [op |-> "MarshalJSON", out |-> MarshalJSONBody(u, x).out,
                 err |-> MarshalJSONBody(u, x).err]
    /\ UNCHANGED <<u, x, goPrev, phpVars, renderVars>>

GoNext ==
    \/ \E data \in Tokens : UnmarshalJSON(data)
    \/ MarshalJSON

SpecGo == GoInit /\ [][GoNext]_vars

\* A union value declared with "var x U" and decoded into again and again.
ZeroValue == [kind \in Kinds |-> Nil]

DecodesInit ==
    /\ u \in Unions
    /\ x = ZeroValue
    /\ goRes = [op |-> "new"]
    /\ goPrev = {}
    /\ PhpIdle

Decode(data) ==
    /\ x' = UnmarshalJSONBody(u, x, data).x
    /\ goRes' = [op |-> "UnmarshalJSON", data |-> data,
                 err |-> UnmarshalJSONBody(u, x, data).err]
    /\ goPrev' = {kind \in Kinds : x[kind] # Nil}
    /\ UNCHANGED <<u, phpVars, renderVars>>

DecodesNext == \E data \in Tokens : Decode(data)

SpecDecodes == DecodesInit /\ [][DecodesNext]_vars

\* The cases emitEnum declares for the enum member: const ( Red E = "red" ).
EnumCases == {"red"}

\* A union value with at most one member populated, encoded and then decoded
\* from its own encoding.
RoundTripSamples(kind) ==
    CASE kind = "double" -> {GoFloat(<<7>>, <<5>>), GoFloat(<<7>>, <<>>)}
      [] kind = "string" -> {GoString("red"), GoString("zzz")}
      [] OTHER -> {Sample(kind)}

RoundTripInit ==
    /\ u \in Unions
    /\ x \in {ZeroValue}
             \cup UNION {{[ZeroValue EXCEPT ![kind] = v] : v \in RoundTripSamples(kind)} :
                            kind \in u.members}
    /\ goRes = [op |-> "new"]
    /\ goPrev = Nil
    /\ PhpIdle

\* bytes, err := x.MarshalJSON()
Encode ==
    /\ goRes.op = "new"
    /\ goRes' = [op |-> "MarshalJSON", out |-> MarshalJSONBody(u, x).out,
                 err |-> MarshalJSONBody(u, x).err]
    /\ UNCHANGED <<u, x, goPrev, phpVars, renderVars>>

\* err = x.UnmarshalJSON(bytes)
DecodeBack ==
    /\ goRes.op = "MarshalJSON" /\ goRes.err = NoErr
    /\ x' = UnmarshalJSONBody(u, x, goRes.out).x
    /\ goRes' = [op |-> "UnmarshalJSON", data |-> goRes.out,
                 err |-> UnmarshalJSONBody(u, x, goRes.out).err]
    /\ goPrev' = x
    /\ UNCHANGED <<u, phpVars, renderVars>>

RoundTripNext == Encode \/ DecodeBack

SpecRoundTrip == RoundTripInit /\ [][RoundTripNext]_vars

\* ---- claims on the union codec --------------------------------------------
Decoded(shape) == goRes.op = "UnmarshalJSON" /\ goRes.data.k = shape

Has(kind) == kind \in u.members

Populated == {kind \in Kinds : x[kind] # Nil}

\* C5 as stated: an object token against a union with a class and a map
\* member always populates the class member and never the map member; with
\* only a map member the map is populated; with neither the decode fails with
\* "Union does not contain object".
C5_AlwaysPopulatesClass ==
    Decoded("object") =>
        /\ Has("class") /\ Has("map") => x["class"] # Nil /\ x["map"] = Nil
        /\ ~Has("class") /\ Has("map") => x["map"] # Nil
        /\ ~Has("class") /\ ~Has("map") => goRes.err = "Union does not contain object"

\* C5, amended: an object token against a union with a class member never
\* populates the map member; the class member is populated exactly when the
\* decode succeeds, and an object that does not decode into the class makes the
\* decode fail with no member populated (the map is not tried).  With only a
\* map member the map is populated; with neither the decode fails with "Union
\* does not contain object".
C5_ClassPrecedence ==
    Decoded("object") =>
        /\ Has("class") =>
              /\ x["map"] = Nil
              /\ goRes.err = NoErr <=> x["class"] # Nil
              /\ goRes.err # NoErr => Populated = {}
        /\ ~Has("class") /\ Has("map") => x["map"] # Nil /\ Populated = {"map"}
        /\ ~Has("class") /\ ~Has("map") =>
              goRes.err = "Union does not contain object" /\ Populated = {}

C5_Witness ==
    /\ Decoded("object") /\ Has("class") /\ Has("map")
    /\ goRes.err = NoErr /\ x["class"] = GoStruct(GoInt(<<7>>)) /\ x["map"] = Nil

\* C6 as stated: a numeric token whose value is exactly integral is bound to
\* the integer member when the union has one; otherwise it is bound to the
\* double member when the union has one; otherwise the decode fails with
\* "Union does not contain number".
C6_IntegralValueBindsInteger ==
    Decoded("number") =>
        IF Has("integer") /\ IsIntegral(goRes.data.lit)
        THEN goRes.err = NoErr /\ Populated = {"integer"}
        ELSE IF Has("double")
             THEN goRes.err = NoErr /\ Populated = {"double"}
             ELSE goRes.err = "Union does not contain number" /\ Populated = {}

\* The token is written as an integer (no fraction, no exponent) within int64.
IsInt64Literal(lit) ==
    lit.frac = <<>> /\ lit.exp = NoExp /\ FitsInt64(lit.int)

\* C6, amended: a numeric token written as an integer literal within int64 is
\* bound to the integer member when the union has one; otherwise, when the
\* union has a double member, it is bound to the double member if it parses as
\* a float64 and the decode fails with "Unparsable number" if it does not;
\* otherwise the decode fails with "Union does not contain number".  So 7.5
\* against a union with an integer and no double member fails, and 7 against a
\* union with both is bound to the integer member.
C6_IntLiteralBindsInteger ==
    Decoded("number") =>
        IF Has("integer") /\ IsInt64Literal(goRes.data.lit)
        THEN /\ goRes.err = NoErr /\ Populated = {"integer"}
             /\ x["integer"] = GoInt(goRes.data.lit.int)
        ELSE IF Has("double")
             THEN IF goRes.data.lit.exp <= MaxFloatExp10
                  THEN goRes.err = NoErr /\ Populated = {"double"}
                  ELSE goRes.err = "Unparsable number" /\ Populated = {}
             ELSE goRes.err = "Union does not contain number" /\ Populated = {}

C6_Witness ==
    /\ Decoded("number") /\ Has("integer") /\ Has("double")
    /\ goRes.data.lit = Lit(<<7>>, <<0>>, NoExp)
    /\ x["double"] = GoFloat(<<7>>, <<>>) /\ x["integer"] = Nil

\* C7: a string token is decoded as the enum when the union has an enum
\* member, and the string member is then not bound even when the union has
\* one; without an enum member the string member is bound when the union has
\* one; with neither the decode fails with "Union does not contain string".
C7_EnumBeforeString ==
    Decoded("string") =>
        IF Has("enum")
        THEN /\ goRes.err = NoErr /\ Populated = {"enum"}
             /\ x["enum"] = GoEnum(goRes.data.s)
        ELSE IF Has("string")
             THEN /\ goRes.err = NoErr /\ Populated = {"string"}
                  /\ x["string"] = GoString(goRes.data.s)
             ELSE goRes.err = "Union does not contain string" /\ Populated = {}

C7_Witness ==
    /\ Decoded("string") /\ Has("enum") /\ Has("string")
    /\ x["enum"] = GoEnum("red") /\ x["string"] = Nil

\* C8: a null token decodes successfully exactly when the union is nullable;
\* after a successful decode no member slot is populated; when the union is
\* not nullable the decode fails with "Union does not contain null".
C8_NullOnlyIfNullable ==
    Decoded("null") =>
        /\ goRes.err = NoErr <=> u.nullable
        /\ goRes.err = NoErr => Populated = {}
        /\ ~u.nullable => goRes.err = "Union does not contain null"

C8_Witness ==
    Decoded("null") /\ u.nullable /\ goRes.err = NoErr /\ Populated = {}

\* The member kinds that accept a token shape, and how the error names it.
Accepting(shape) ==
    CASE shape = "number" -> {"integer", "double"}
      [] shape = "bool"   -> {"bool"}
      [] shape = "string" -> {"enum", "string"}
      [] shape = "null"   -> {}
      [] shape = "object" -> {"class", "map"}
      [] shape = "array"  -> {"array"}

CanAccept(shape) ==
    IF shape = "null" THEN u.nullable ELSE Accepting(shape) \cap u.members # {}

\* C9: a token of a shape no member of the union accepts makes the decode fail
\* with "Union does not contain <shape>" and leaves no member slot populated;
\* a bool token populates the bool member, and an array token the array
\* member, exactly when the union has that member.
C9_NoMemberIsAnError ==
    goRes.op = "UnmarshalJSON" =>
        /\ ~CanAccept(goRes.data.k) =>
              /\ \E shape \in {"number", "bool", "string", "null", "object", "array"} :
                    /\ shape = goRes.data.k
                    /\ goRes.err = CASE shape = "number" -> "Union does not contain number"
                                     [] shape = "bool"   -> "Union does not contain bool"
                                     [] shape = "string" -> "Union does not contain string"
                                     [] shape = "null"   -> "Union does not contain null"
                                     [] shape = "object" -> "Union does not contain object"
                                     [] shape = "array"  -> "Union does not contain array"
              /\ Populated = {}
        /\ goRes.data.k = "bool" =>
              /\ Has("bool") <=> x["bool"] = GoBool(goRes.data.b)
              /\ Has("bool") <=> goRes.err = NoErr
        /\ goRes.data.k = "array" => (Has("array") <=> x["array"] # Nil)

C9_Witness ==
    /\ Decoded("bool") /\ ~Has("bool") /\ Has("string") /\ Has("integer")
    /\ goRes.err = "Union does not contain bool" /\ Populated = {}

\* The order in which MarshalJSON looks at the slots.
EncodeOrder == <<"integer", "double", "bool", "string", "array", "class", "map", "enum">>

FirstPopulated ==
    EncodeOrder[CHOOSE i \in DOMAIN EncodeOrder :
                    /\ x[EncodeOrder[i]] # Nil
                    /\ \A j \in 1..(i - 1) : x[EncodeOrder[j]] = Nil]

\* C10: MarshalJSON returns the encoding of the first populated slot in the
\* order integer, double, bool, string, array, class, map, enum, and that slot
\* is one of the union's members; with no slot populated it returns JSON null
\* when the union is nullable and fails with "Union must not be null" when it
\* is not.
C10_EncodeFirstPopulated ==
    goRes.op = "MarshalJSON" =>
        IF Populated # {}
        THEN /\ goRes.err = NoErr
             /\ goRes.out = jsonMarshal(x[FirstPopulated])
             /\ Has(FirstPopulated)
        ELSE IF u.nullable
             THEN goRes.err = NoErr /\ goRes.out = JNull
             ELSE goRes.err = "Union must not be null"

C10_Witness ==
    /\ goRes.op = "MarshalJSON" /\ x["bool"] # Nil /\ x["array"] # Nil
    /\ goRes.out = JBool(TRUE)

\* The member the type switch selects for a token.
Selected(data) ==
    CASE data.k = "number" ->
            IF Has("integer") /\ IsInt64Literal(data.lit) THEN "integer" ELSE "double"
      [] data.k = "bool"   -> "bool"
      [] data.k = "string" -> IF Has("enum") THEN "enum" ELSE "string"
      [] data.k = "object" -> IF Has("class") THEN "class" ELSE "map"
      [] data.k = "array"  -> "array"

\* C11: after any sequence of UnmarshalJSON calls on one union value, each
\* successful or failed, at most one member slot is populated; after a
\* successful decode of a token other than null exactly one slot is
\* populated, the one selected for that last token, whatever earlier decodes
\* had left in the value.
C11_SingleMember ==
    goRes.op = "UnmarshalJSON" =>
        /\ Cardinality(Populated) <= 1
        /\ (goRes.err = NoErr /\ goRes.data.k # "null") =>
              Populated = {Selected(goRes.data)}
        /\ (goRes.err = NoErr /\ goRes.data.k = "null") => Populated = {}

C11_Witness ==
    /\ goRes.op = "UnmarshalJSON" /\ goRes.err = NoErr
    /\ goPrev = {"string"} /\ Populated = {"integer"}

(***************************************************************************)
(* Part II.  PHP hydrator                                                  *)
(***************************************************************************)

\* ---- identifiers ------------------------------------------------------------
\* A JSON key or PHP identifier is its words, how they are joined (camel: the
\* words after the first start upper case and nothing separates them;
\* otherwise they are joined by "_") and whether its first letter is upper
\* case.  Two identifiers are the same text exactly when the records are equal.
Ident(words, camel, upper) == [words |-> words, camel |-> camel, upper |-> upper]

Key(words) == Ident(words, FALSE, FALSE)

\* phpNameStyle(false, false, original): split into words, first word lower
\* case, the others first-upper, joined with nothing.
phpNameStyle(original) == Ident(original.words, Len(original.words) > 1, FALSE)

capitaliseFirstLetter(s) == [s EXCEPT !.upper = TRUE]

\* ---- the type graph ---------------------------------------------------------
NoType == [k |-> "none"]

PrimitiveKinds == {"any", "null", "bool", "integer", "double", "string"}

TPrim(kind)  == [k |-> kind]
TDateTime    == [k |-> "date-time"]
TArray(t)    == [k |-> "array", items |-> t]
TClass(id)   == [k |-> "class", id |-> id]
TUnion(ms)   == [k |-> "union", members |-> ms]
TNullable(t) == TUnion({TPrim("null"), t})

\* The TransformedString kinds besides date-time ("uri" stands for every kind
\* the renderer does not name).
OtherTransformedKinds == {"date", "time", "uuid", "uri"}
TTransformed(kind)    == [k |-> kind]

ClassProperty(json, type, isOptional) ==
    [json |-> json, type |-> type, isOptional |-> isOptional]

\* nullableFromUnion: the other member of a union of null and one more type.
nullableFromUnion(t) ==
    LET nonNulls == {m \in t.members : m.k # "null"}
    IN  IF TPrim("null") \in t.members /\ Cardinality(nonNulls) = 1
        THEN CHOOSE m \in nonNulls : TRUE
        ELSE NoType

\* Type.isNullable
isNullable(t) ==
    IF t.k = "union" THEN TPrim("null") \in t.members
    ELSE t.k \in {"null", "any"}

isPrimitive(t) == t.k \in PrimitiveKinds \cup {"date-time"}

\* Mutant: the properties are left in their declared order.
sortClassProperties_Declared(properties) == properties

\* sortClassProperties: a stable sort that puts the nullable properties last.
sortClassProperties(properties) ==
    LET Required(p) == ~isNullable(p.type)
        Nullable(p) == isNullable(p.type)
    IN  SelectSeq(properties, Required) \o SelectSeq(properties, Nullable)

\* forEachClassProperty: (name, jsonName, p) in the sorted order, name being
\* the styled property name.
forEachClassProperty(g, id) ==
    LET sorted == sortClassProperties(g.classes[id].props)
    IN  [i \in DOMAIN sorted |->
            [name |-> phpNameStyle(sorted[i].json), jsonName |-> sorted[i].json,
             p |-> sorted[i]]]

getCombinedName(g, id) == g.classes[id].name

\* ---- what the renderer emits ---------------------------------------------------
\* Emitted code is kept as data: a hydrator class is the sequence of its
\* functions, each with the statements the renderer put into it.
NoClass == "(none)"

\* getFirstChildren: the first child of a type in the graph, NoType if it
\* has none.  An array's only child is its item type; a class's children are
\* its property types.
getFirstChildren(g, t) ==
    CASE t.k = "array" -> t.items
      [] t.k = "class" ->
            IF g.classes[t.id].props = <<>> THEN NoType
            ELSE g.classes[t.id].props[1].type
      [] t.k = "union" -> nullableFromUnion(t)
      [] OTHER -> NoType

getClassTypeFromType(g, t) ==
    IF t.k = "class" THEN t.id
    ELSE IF t.k = "union" /\ nullableFromUnion(t).k = "class" THEN nullableFromUnion(t).id
    ELSE IF t.k = "array"
         THEN LET childChild == getFirstChildren(g, getFirstChildren(g, t))
              IN  IF childChild.k = "class" THEN childChild.id
                  ELSE IF childChild.k = "union" /\ nullableFromUnion(childChild).k = "class"
                       THEN nullableFromUnion(childChild).id
                       ELSE NoClass
         ELSE NoClass

FuncName(prefix, name) == [prefix |-> prefix, name |-> capitaliseFirstLetter(name)]

TopName(prefix) == [prefix |-> prefix, name |-> Ident(<<>>, FALSE, FALSE)]

\* ["$data['", jsonName, "']", opt]
DataArgs(jsonName, opt) == [key |-> jsonName, opt |-> opt]

\* phpDehydrateType: the argument line emitted for one property (none for a
\* union that is not a nullable).
RECURSIVE phpDehydrateType(_, _, _, _)
phpDehydrateType(g, jsonName, t, args) ==
    CASE t.k \in PrimitiveKinds \cup {"map", "enum"} -> <<[e |-> "copy", args |-> args]>>
      [] t.k = "array" -> <<[e |-> "var", name |-> jsonName]>>
      [] t.k = "class" ->
            <<[e |-> "call", f |-> FuncName("dehydrate", getCombinedName(g, t.id)),
               args |-> args]>>
      [] t.k = "union" ->
            IF nullableFromUnion(t) # NoType
            THEN phpDehydrateType(g, jsonName, nullableFromUnion(t), args)
            ELSE <<>>
      [] t.k = "date-time" -> <<[e |-> "format", args |-> args]>>
      [] t.k \in OtherTransformedKinds -> <<[e |-> "throw"]>>

\* ["$message->", names.getter, "()"]: the getter of the i-th property.
GetterArgs(i) == [getter |-> i]

\* phpHydrateType: the assignment emitted for one property.
RECURSIVE phpHydrateType(_, _, _, _, _)
phpHydrateType(g, jsonName, t, lhs, args) ==
    CASE t.k \in PrimitiveKinds \cup {"map", "enum"} ->
            <<[lhs |-> lhs, e |-> "copy", args |-> args]>>
      [] t.k = "array" -> <<[lhs |-> lhs, e |-> "var", name |-> jsonName]>>
      [] t.k = "class" ->
            <<[lhs |-> lhs, e |-> "call",
               f |-> FuncName("hydrate", getCombinedName(g, t.id)), args |-> args]>>
      [] t.k = "union" ->
            IF nullableFromUnion(t) # NoType
            THEN phpHydrateType(g, jsonName, nullableFromUnion(t), lhs, args)
            ELSE <<>>
      [] t.k = "date-time" -> <<[lhs |-> lhs, e |-> "format", args |-> args]>>
      [] t.k \in OtherTransformedKinds -> <<[lhs |-> lhs, e |-> "throw"]>>

RECURSIVE Flatten(_)
Flatten(ss) == IF ss = <<>> THEN <<>> ELSE Head(ss) \o Flatten(Tail(ss))

\* The type whose array-ness decides whether a loop is emitted.
UnwrapNullable(t) ==
    IF t.k = "union" /\ nullableFromUnion(t) # NoType THEN nullableFromUnion(t) ELSE t

\* The body of the foreach emitted for an array property.
LoopBody(g, prefix, type) ==
    LET child == getFirstChildren(g, type)
    IN  IF child = NoType THEN [e |-> "none"]
        ELSE IF isPrimitive(child) THEN [e |-> "copy"]
        ELSE LET secondChild == getFirstChildren(g, child)
             IN  IF secondChild = NoType THEN [e |-> "none"]
                 ELSE IF secondChild.k = "class"
                      THEN [e |-> "call",
                            f |-> FuncName(prefix, getCombinedName(g, secondChild.id))]
                      ELSE [e |-> "call",
                            f |-> FuncName(prefix, Ident(<<secondChild.k>>, FALSE, FALSE))]

\* emitArrayDehydrateDefinition: "$name = []; foreach ($data['name'] as $value)".
emitArrayDehydrateDefinition(g, id) ==
    LET ps == forEachClassProperty(g, id)
    IN  Flatten([i \in DOMAIN ps |->
            IF UnwrapNullable(ps[i].p.type).k = "array"
            THEN <<[var |-> ps[i].name, key |-> ps[i].name,
                    body |-> LoopBody(g, "dehydrate", UnwrapNullable(ps[i].p.type))]>>
            ELSE <<>>])

\* emitArrayHydrateDefinition: "$name = []; foreach ($message->getter() as $value)".
emitArrayHydrateDefinition(g, id) ==
    LET ps == forEachClassProperty(g, id)
    IN  Flatten([i \in DOMAIN ps |->
            IF UnwrapNullable(ps[i].p.type).k = "array"
            THEN <<[var |-> ps[i].name, getter |-> i,
                    body |-> LoopBody(g, "hydrate", UnwrapNullable(ps[i].p.type))]>>
            ELSE <<>>])

\* emitNestedDehydrateDefinition: the function for the class a property type
\* leads to, then the same for each of that class's properties.
RECURSIVE emitNestedDehydrateDefinition(_, _)
emitNestedDehydrateDefinition(g, type) ==
    LET classType == getClassTypeFromType(g, type)
        ps        == forEachClassProperty(g, classType)
    IN  IF classType = NoClass THEN <<>>
        ELSE <<[name   |-> FuncName("dehydrate", getCombinedName(g, classType)),
                kind   |-> "dehydrate",
                class  |-> classType,
                checks |-> <<>>,
                loops  |-> <<>>,
                stray  |-> <<>>,
                body   |-> Flatten([i \in DOMAIN ps |->
                              phpDehydrateType(g, ps[i].jsonName, ps[i].p.type,
                                               DataArgs(ps[i].jsonName, FALSE))])]>>
             \o Flatten([i \in DOMAIN ps |-> emitNestedDehydrateDefinition(g, ps[i].p.type)])

\* emitTopDehydrateDefinition: dehydrate(array $data) and the nested functions.
emitTopDehydrateDefinition(g, id) ==
    LET ps == forEachClassProperty(g, id)
    IN  <<[name   |-> TopName("dehydrate"),
           kind   |-> "dehydrate",
           class  |-> id,
           checks |-> Flatten([i \in DOMAIN ps |->
                         IF ~isNullable(ps[i].p.type) THEN <<ps[i].name>> ELSE <<>>]),
           loops  |-> emitArrayDehydrateDefinition(g, id),
           stray  |-> <<>>,
           body   |-> Flatten([i \in DOMAIN ps |->
                         phpDehydrateType(g, ps[i].jsonName, ps[i].p.type,
                                          DataArgs(ps[i].jsonName, isNullable(ps[i].p.type)))])]>>
        \o Flatten([i \in DOMAIN ps |-> emitNestedDehydrateDefinition(g, ps[i].p.type)])

\* emitNestedHydrateDefinition: the array loops of the class are emitted
\* before the function, outside any function body (stray).
RECURSIVE emitNestedHydrateDefinition(_, _)
emitNestedHydrateDefinition(g, type) ==
    LET classType == getClassTypeFromType(g, type)
        ps        == forEachClassProperty(g, classType)
    IN  IF classType = NoClass THEN <<>>
        ELSE <<[name   |-> FuncName("hydrate", getCombinedName(g, classType)),
                kind   |-> "hydrate",
                class  |-> classType,
                checks |-> <<>>,
                loops  |-> <<>>,
                stray  |-> emitArrayHydrateDefinition(g, classType),
                body   |-> Flatten([i \in DOMAIN ps |->
                              phpHydrateType(g, ps[i].jsonName, ps[i].p.type,
                                             ps[i].name, GetterArgs(i))])]>>
             \o Flatten([i \in DOMAIN ps |-> emitNestedHydrateDefinition(g, ps[i].p.type)])

\* emitTopHydrateDefinition: hydrate($message) and the nested functions.
emitTopHydrateDefinition(g, id) ==
    LET ps == forEachClassProperty(g, id)
    IN  <<[name   |-> TopName("hydrate"),
           kind   |-> "hydrate",
           class  |-> id,
           checks |-> <<>>,
           loops  |-> emitArrayHydrateDefinition(g, id),
           stray  |-> <<>>,
           body   |-> Flatten([i \in DOMAIN ps |->
                         phpHydrateType(g, ps[i].jsonName, ps[i].p.type,
                                        ps[i].name, GetterArgs(i))])]>>
        \o Flatten([i \in DOMAIN ps |-> emitNestedHydrateDefinition(g, ps[i].p.type)])

\* emitTopClassHydratorDehydrator: the functions of the class <Top>Hydrator.
emitTopClassHydratorDehydrator(g, id) ==
    emitTopHydrateDefinition(g, id) \o emitTopDehydrateDefinition(g, id)

\* ---- PHP values and what the emitted statements compute -----------------------
PNull        == [k |-> "null"]
PBool(b)     == [k |-> "bool", b |-> b]
PInt(n)      == [k |-> "int", n |-> n]
PStr(str)    == [k |-> "string", s |-> str]
PList(es)    == [k |-> "list", elems |-> es]       \* array with keys 0..n-1
PAssoc(m)    == [k |-> "assoc", m |-> m]           \* array with string keys
PStd(m)      == [k |-> "stdClass", m |-> m]
PObj(id, fs) == [k |-> "object", class |-> id, fields |-> fs]
PDateTime(t) == [k |-> "DateTime", t |-> t]

Ok(v)             == [ok |-> TRUE, val |-> v]
Throw(type, what) == [ok |-> FALSE, type |-> type, what |-> what]

isArrayValue(v) == v.k \in {"list", "assoc"}

\* $data['key'], with or without "?? null": null when the key is not there.
Index(data, key) ==
    IF data.k = "assoc" /\ key \in DOMAIN data.m THEN data.m[key] ELSE PNull

isset(data, key) == Index(data, key) # PNull

\* DateTime::format(DateTimeInterface::ISO8601), "Y-m-d\TH:i:sO".
formatISO8601(t) == CASE t = "t0" -> "2020-01-01T00:00:00+0000"
                      [] OTHER    -> "1970-01-01T00:00:00+0000"

Failed(r) == ~r.ok

\* The first result, in emitted order, that is a throw.
FirstFailed(rs) == rs[CHOOSE i \in DOMAIN rs : Failed(rs[i]) /\ \A j \in 1..(i - 1) : ~Failed(rs[j])]

\* The first of the checked names that is not set in $data.
FirstNotSet(data, names) ==
    names[CHOOSE i \in DOMAIN names :
              ~isset(data, names[i]) /\ \A j \in 1..(i - 1) : isset(data, names[j])]

\* The functions of a hydrator class with a given name.
Lookup(hyd, fname, kind) ==
    LET Named(f) == f.name = fname /\ f.kind = kind IN SelectSeq(hyd, Named)

\* PHP refuses the class when a statement stands outside a function or a
\* method is declared twice.
Compiles(hyd) ==
    /\ \A i \in DOMAIN hyd : hyd[i].stray = <<>>
    /\ \A i, j \in DOMAIN hyd : hyd[i].name = hyd[j].name => i = j

RECURSIVE callDehydrate(_, _, _)
RECURSIVE callHydrate(_, _, _, _)

\* One element of a foreach over an array property.
loopElemDehydrate(hyd, body, value) ==
    IF body.e = "call" THEN callDehydrate(hyd, body.f, value) ELSE Ok(value)

\* "$name = []; foreach ($data['name'] as $value) { $name[] = ... }": the
\* value of $name after the loop.  foreach over what is no array runs no
\* iteration.
loopDehydrate(hyd, loop, data) ==
    LET src == Index(data, loop.key)
        rs  == IF src.k = "list" /\ loop.body.e # "none"
               THEN [i \in DOMAIN src.elems |-> loopElemDehydrate(hyd, loop.body, src.elems[i])]
               ELSE <<>>
    IN  IF \E i \in DOMAIN rs : Failed(rs[i]) THEN FirstFailed(rs)
        ELSE Ok(PList([i \in DOMAIN rs |-> rs[i].val]))

\* One argument line of "return new C(...)".
argDehydrate(hyd, line, data, locals) ==
    CASE line.e = "copy" -> Ok(Index(data, line.args.key))
      [] line.e = "var"  ->
            IF line.name \in DOMAIN locals THEN Ok(locals[line.name]) ELSE Ok(PNull)
      [] line.e = "call" -> callDehydrate(hyd, line.f, Index(data, line.args.key))
      [] line.e = "format" ->
            \* "$data[k] ?? null->format(..)" is $data[k] when it is set;
            \* ->format on a string or on null is an Error.
            IF line.args.opt /\ isset(data, line.args.key)
            THEN Ok(Index(data, line.args.key))
            ELSE Throw("Error", Key(<<"format">>))

\* A call of an emitted dehydrate function: (array $data) is type-checked,
\* the isset checks throw, the loops fill their variables, the constructor
\* takes the argument lines in order.
callDehydrate(hyd, fname, data) ==
    IF ~Compiles(hyd) THEN Throw("CompileError", Key(<<"class">>))
    ELSE IF Lookup(hyd, fname, "dehydrate") = <<>> THEN Throw("Error", Key(<<"undefined", "method">>))
    ELSE IF ~isArrayValue(data) THEN Throw("TypeError", Key(<<"data">>))
    ELSE
    LET f       == Lookup(hyd, fname, "dehydrate")[1]
        NotSet(name) == ~isset(data, name)
        loops   == [i \in DOMAIN f.loops |-> loopDehydrate(hyd, f.loops[i], data)]
        locals  == [v \in {f.loops[i].var : i \in DOMAIN f.loops} |->
                       loops[CHOOSE i \in DOMAIN f.loops : f.loops[i].var = v].val]
        argv    == [i \in DOMAIN f.body |-> argDehydrate(hyd, f.body[i], data, locals)]
    IN  IF \E i \in DOMAIN f.checks : NotSet(f.checks[i])
        THEN Throw("RuntimeException", FirstNotSet(data, f.checks))
        ELSE IF \E i \in DOMAIN loops : Failed(loops[i]) THEN FirstFailed(loops)
        ELSE IF \E i \in DOMAIN argv : Failed(argv[i]) THEN FirstFailed(argv)
        ELSE Ok(PObj(f.class, [i \in DOMAIN argv |-> argv[i].val]))

\* $message->getter(): the field the constructor stored at that position.
Getter(obj, i) == IF i \in DOMAIN obj.fields THEN obj.fields[i] ELSE PNull

loopElemHydrate(g, hyd, body, value) ==
    IF body.e = "call" THEN callHydrate(g, hyd, body.f, value) ELSE Ok(value)

loopHydrate(g, hyd, loop, obj) ==
    LET src == Getter(obj, loop.getter)
        rs  == IF src.k = "list" /\ loop.body.e # "none"
               THEN [i \in DOMAIN src.elems |-> loopElemHydrate(g, hyd, loop.body, src.elems[i])]
               ELSE <<>>
    IN  IF \E i \in DOMAIN rs : Failed(rs[i]) THEN FirstFailed(rs)
        ELSE Ok(PList([i \in DOMAIN rs |-> rs[i].val]))

\* The right-hand side of one "$res->name = ...;".
assignHydrate(g, hyd, line, obj, locals) ==
    CASE line.e = "copy" -> Ok(Getter(obj, line.args.getter))
      [] line.e = "var"  ->
            IF line.name \in DOMAIN locals THEN Ok(locals[line.name]) ELSE Ok(PNull)
      [] line.e = "call" -> callHydrate(g, hyd, line.f, Getter(obj, line.args.getter))
      [] line.e = "format" ->
            IF Getter(obj, line.args.getter).k = "DateTime"
            THEN Ok(PStr(formatISO8601(Getter(obj, line.args.getter).t)))
            ELSE Throw("Error", Key(<<"format">>))

\* A call of an emitted hydrate function: hydrate($message) throws unless
\* $message is an instance of the class, hydrateC(C $obj) is type-checked.
callHydrate(g, hyd, fname, obj) ==
    IF ~Compiles(hyd) THEN Throw("CompileError", Key(<<"class">>))
    ELSE IF Lookup(hyd, fname, "hydrate") = <<>> THEN Throw("Error", Key(<<"undefined", "method">>))
    ELSE
    LET f       == Lookup(hyd, fname, "hydrate")[1]
        loops   == [i \in DOMAIN f.loops |-> loopHydrate(g, hyd, f.loops[i], obj)]
        locals  == [v \in {f.loops[i].var : i \in DOMAIN f.loops} |->
                       loops[CHOOSE i \in DOMAIN f.loops : f.loops[i].var = v].val]
        rhs     == [i \in DOMAIN f.body |-> assignHydrate(g, hyd, f.body[i], obj, locals)]
    IN  IF obj.k # "object" \/ (obj.k = "object" /\ obj.class # f.class)
        THEN IF fname = TopName("hydrate") /\ obj.k = "object"
             THEN Throw("RuntimeException", Key(<<"instanceof">>))
             ELSE IF fname = TopName("hydrate") THEN Throw("Error", Key(<<"getMessageName">>))
             ELSE Throw("TypeError", Key(<<"obj">>))
        ELSE IF \E i \in DOMAIN loops : Failed(loops[i]) THEN FirstFailed(loops)
        ELSE IF \E i \in DOMAIN rhs : Failed(rhs[i]) THEN FirstFailed(rhs)
        ELSE Ok(PStd([key \in {f.body[i].lhs : i \in DOMAIN f.body} |->
                        rhs[CHOOSE i \in DOMAIN f.body : f.body[i].lhs = key].val]))

\* json_decode(json_encode($v), true): objects come back as arrays with
\* string keys.
RECURSIVE jsonRecode(_)
jsonRecode(v) ==
    CASE v.k = "stdClass" -> PAssoc([key \in DOMAIN v.m |-> jsonRecode(v.m[key])])
      [] v.k = "assoc"    -> PAssoc([key \in DOMAIN v.m |-> jsonRecode(v.m[key])])
      [] v.k = "list"     -> PList([i \in DOMAIN v.elems |-> jsonRecode(v.elems[i])])
      [] OTHER            -> v

\* ---- the hydrator as a state machine -------------------------------------------
\* The graphs: a top-level class Top whose properties are up to MaxProps of
\* the properties below, in any order, and the class Address some of them
\* refer to.
MaxProps == 2
MaxCalls == 3

Absent == [k |-> "absent"]

AddressClass ==
    [name  |-> Key(<<"address">>),
     props |-> <<ClassProperty(Key(<<"city">>), TPrim("string"), FALSE),
                 ClassProperty(Key(<<"zip">>), TNullable(TPrim("string")), TRUE)>>]

Rome     == PAssoc(Key(<<"city">>) :> PStr("Rome"))
RomeZip  == PAssoc(Key(<<"city">>) :> PStr("Rome") @@ Key(<<"zip">>) :> PStr("00100"))
NoCity   == PAssoc([key \in {} |-> PNull])
RomeObj    == PObj("Address", <<PStr("Rome"), PNull>>)
RomeZipObj == PObj("Address", <<PStr("Rome"), PStr("00100")>>)

\* A property, the values a generic input may hold for it (Absent: no such
\* key) and the values a typed input may hold for it.
Template(prop, generic, typed) == [prop |-> prop, generic |-> generic, typed |-> typed]

Templates ==
    { Template(ClassProperty(Key(<<"name">>), TPrim("string"), FALSE),
               {Absent, PStr("Ana")}, {PStr("Ana")}),
      Template(ClassProperty(Key(<<"first", "name">>), TPrim("string"), FALSE),
               {Absent, PStr("Ana")}, {PStr("Ana")}),
      Template(ClassProperty(Key(<<"nick">>), TNullable(TPrim("string")), TRUE),
               {Absent, PNull, PStr("An")}, {PNull, PStr("An")}),
      Template(ClassProperty(Key(<<"note">>), TNullable(TPrim("string")), FALSE),
               {Absent, PNull, PStr("hi")}, {PNull, PStr("hi")}),
      Template(ClassProperty(Key(<<"age">>), TPrim("integer"), FALSE),
               {Absent, PInt(3)}, {PInt(3)}),
      Template(ClassProperty(Key(<<"tags">>), TArray(TPrim("string")), FALSE),
               {Absent, PList(<<PStr("a"), PStr("b")>>)}, {PList(<<PStr("a"), PStr("b")>>)}),
      Template(ClassProperty(Key(<<"created">>), TDateTime, FALSE),
               {Absent, PStr("2020-01-01T00:00:00+0000")}, {PDateTime("t0")}),
      Template(ClassProperty(Key(<<"address">>), TClass("Address"), FALSE),
               {Absent, Rome, RomeZip, NoCity}, {RomeObj, RomeZipObj}),
      Template(ClassProperty(Key(<<"home">>), TNullable(TClass("Address")), TRUE),
               {Absent, PNull, Rome}, {PNull, RomeObj}),
      Template(ClassProperty(Key(<<"places">>), TArray(TClass("Address")), FALSE),
               {Absent, PList(<<Rome>>)}, {PList(<<RomeObj>>)}) }

TemplateSeqs ==
    {ts \in UNION {[1..n -> Templates] : n \in 1..MaxProps} :
        \A i, j \in DOMAIN ts : ts[i] = ts[j] => i = j}

MakeGraph(ts) ==
    [top     |-> "Top",
     classes |-> [id \in {"Top", "Address"} |->
                    IF id = "Top"
                    THEN [name |-> Key(<<"top">>), props |-> [i \in DOMAIN ts |-> ts[i].prop]]
                    ELSE AddressClass]]

\* All the ways to pick one element from each set of a sequence of sets.
RECURSIVE Picks(_)
Picks(sets) ==
    IF sets = <<>> THEN {<<>>}
    ELSE {<<h>> \o t : h \in Head(sets), t \in Picks(Tail(sets))}

GenericInputs(ts) ==
    {PAssoc([key \in {ts[i].prop.json : i \in {j \in DOMAIN ts : pick[j] # Absent}} |->
                pick[CHOOSE i \in DOMAIN ts : ts[i].prop.json = key]]) :
        pick \in Picks([i \in DOMAIN ts |-> ts[i].generic])}

\* A typed value holds its fields in the order of the constructor's
\* parameters, which is that of forEachClassProperty.
TypedInputs(ts) ==
    LET ps == forEachClassProperty(MakeGraph(ts), "Top")
    IN  {PObj("Top", [i \in DOMAIN ps |->
                         pick[CHOOSE j \in DOMAIN ts : ts[j].prop = ps[i].p]]) :
            pick \in Picks([i \in DOMAIN ts |-> ts[i].typed])}

GoIdle == u = Nil /\ x = Nil /\ goRes = Nil /\ goPrev = Nil

PhpInit ==
    /\ \E ts \in TemplateSeqs :
          /\ graph = MakeGraph(ts)
          /\ phpIn \in GenericInputs(ts) \cup TypedInputs(ts)
    /\ phpRes = [hist |-> <<>>, cur |-> Ok(phpIn)]
    /\ emission = Nil /\ dispatch = Nil /\ naming = Nil /\ files = Nil
    /\ GoIdle

Hydrator == emitTopClassHydratorDehydrator(graph, graph.top)

CanCall == phpRes.cur.ok /\ Len(phpRes.hist) < MaxCalls

\* $h->dehydrate($v)
Dehydrate ==
    /\ CanCall
    /\ phpRes.cur.val.k \in {"assoc", "list", "stdClass"}
    /\ phpRes' = [hist |-> Append(phpRes.hist, "dehydrate"),
                  cur  |-> callDehydrate(Hydrator, TopName("dehydrate"), phpRes.cur.val)]
    /\ UNCHANGED <<graph, phpIn, goVars, renderVars>>

\* $h->hydrate($t)
Hydrate ==
    /\ CanCall
    /\ phpRes.cur.val.k = "object"
    /\ phpRes' = [hist |-> Append(phpRes.hist, "hydrate"),
                  cur  |-> callHydrate(graph, Hydrator, TopName("hydrate"), phpRes.cur.val)]
    /\ UNCHANGED <<graph, phpIn, goVars, renderVars>>

\* json_decode(json_encode($v), true), as the round-trip driver does
JsonRecode ==
    /\ CanCall
    /\ phpRes.cur.val.k = "stdClass"
    /\ phpRes' = [hist |-> Append(phpRes.hist, "json"),
                  cur  |-> Ok(jsonRecode(phpRes.cur.val))]
    /\ UNCHANGED <<graph, phpIn, goVars, renderVars>>

PhpNext == Dehydrate \/ Hydrate \/ JsonRecode

SpecPhp == PhpInit /\ [][PhpNext]_vars

\* ---- the renderer emitting the nested functions, call by call -------------------
\* The type graphs: the top-level class Top with up to MaxProps of these
\* properties, some of which refer back to Top.
EmitProperties ==
    { ClassProperty(Key(<<"name">>), TPrim("string"), FALSE),
      ClassProperty(Key(<<"address">>), TClass("Address"), FALSE),
      ClassProperty(Key(<<"home">>), TNullable(TClass("Address")), TRUE),
      ClassProperty(Key(<<"places">>), TArray(TClass("Address")), FALSE),
      ClassProperty(Key(<<"next">>), TNullable(TClass("Top")), TRUE),
      ClassProperty(Key(<<"children">>), TArray(TClass("Top")), FALSE),
      ClassProperty(Key(<<"peer">>), TClass("Top"), FALSE) }

EmitGraphs ==
    {MakeGraph([i \in DOMAIN ps |-> Template(ps[i], {}, {})]) :
        ps \in {q \in UNION {[1..n -> EmitProperties] : n \in 1..MaxProps} :
                   \A i, j \in DOMAIN q : q[i] = q[j] => i = j}}

\* The calls in progress are cut off at this depth.
MaxDepth == 4

\* One call in progress: the class whose function it emits and the property
\* types its closing forEachClassProperty has still to visit.
Frame(fn, g, id) ==
    [fn |-> fn, class |-> id,
     pending |-> [i \in DOMAIN forEachClassProperty(g, id) |->
                     forEachClassProperty(g, id)[i].p.type]]

EmitInit ==
    /\ graph \in EmitGraphs
    /\ \E kind \in {"hydrate", "dehydrate"} :
          emission = [kind |-> kind, stack |-> <<>>, out |-> <<>>, done |-> FALSE]
    /\ phpIn = Nil /\ phpRes = Nil /\ dispatch = Nil /\ naming = Nil /\ files = Nil
    /\ GoIdle

\* emitTopHydrateDefinition / emitTopDehydrateDefinition: the top function
\* is emitted, then the properties are visited.
EmitTop ==
    /\ emission.stack = <<>> /\ emission.out = <<>> /\ ~emission.done
    /\ emission' = [emission EXCEPT
                       !.out   = <<TopName(emission.kind)>>,
                       !.stack = <<Frame("top", graph, graph.top)>>]
    /\ UNCHANGED <<graph, phpIn, phpRes, dispatch, naming, files, goVars>>

\* emitNestedHydrateDefinition / emitNestedDehydrateDefinition called for the
\* next property type: it returns at once when the type leads to no class,
\* else it emits the function of the class and visits that class's properties.
EmitNested ==
    /\ emission.stack # <<>>
    /\ Len(emission.stack) < MaxDepth
    /\ emission.stack[Len(emission.stack)].pending # <<>>
    /\ LET n         == Len(emission.stack)
           type      == Head(emission.stack[n].pending)
           classType == getClassTypeFromType(graph, type)
           rest      == [emission.stack EXCEPT ![n].pending = Tail(@)]
       IN  emission' =
             IF classType = NoClass THEN [emission EXCEPT !.stack = rest]
             ELSE [emission EXCEPT
                      !.out   = Append(@, FuncName(emission.kind,
                                                   getCombinedName(graph, classType))),
                      !.stack = Append(rest, Frame("nested", graph, classType))]
    /\ UNCHANGED <<graph, phpIn, phpRes, dispatch, naming, files, goVars>>

\* The call on top has visited all its properties and returns.
EmitReturn ==
    /\ emission.stack # <<>>
    /\ emission.stack[Len(emission.stack)].pending = <<>>
    /\ emission' = [emission EXCEPT
                       !.stack = SubSeq(@, 1, Len(@) - 1),
                       !.done  = Len(emission.stack) = 1]
    /\ UNCHANGED <<graph, phpIn, phpRes, dispatch, naming, files, goVars>>

EmitNext == EmitTop \/ EmitNested \/ EmitReturn

SpecEmit == EmitInit /\ [][EmitNext]_vars

\* ---- the dispatchers on a type ------------------------------------------------------
\* A dispatcher returns the source text it made, as its pieces, or throws.
Emit(pieces) == [emit |-> pieces]
Raise(msg)   == [raise |-> msg]
Raises(r)    == "raise" \in DOMAIN r

Wrap(pre, r, post) == IF Raises(r) THEN r ELSE Emit(pre \o r.emit \o post)

RECURSIVE phpType(_, _)
phpType(t, isOptional) ==
    LET optionalize(piece) == Emit(IF isOptional THEN <<"?", piece>> ELSE <<piece>>)
    IN  CASE t.k \in {"any", "null"} -> Emit(<<"Object">>)
          [] t.k = "bool"    -> optionalize("bool")
          [] t.k = "integer" -> optionalize("long")
          [] t.k = "double"  -> optionalize("float")
          [] t.k = "string"  -> optionalize("string")
          [] t.k = "array"   -> optionalize("array")
          [] t.k = "class"   -> optionalize(t.id)
          [] t.k = "map"     -> optionalize("stdClass")
          [] t.k = "enum"    -> optionalize("Enum")
          [] t.k = "union"   ->
                IF nullableFromUnion(t) # NoType THEN phpType(nullableFromUnion(t), TRUE)
                ELSE Emit(<<"Union">>)
          [] t.k = "date-time" -> Emit(<<"DateTime">>)
          [] t.k \in {"time", "date", "uuid"} -> Raise(t.k)
          [] OTHER -> Emit(<<"string">>)

RECURSIVE phpDocConvertType(_)
phpDocConvertType(t) ==
    CASE t.k = "any"     -> Emit(<<"any">>)
      [] t.k = "null"    -> Emit(<<"null">>)
      [] t.k = "bool"    -> Emit(<<"bool">>)
      [] t.k = "integer" -> Emit(<<"int">>)
      [] t.k = "double"  -> Emit(<<"float">>)
      [] t.k = "string"  -> Emit(<<"string">>)
      [] t.k = "array"   -> Wrap(<<>>, phpDocConvertType(t.items), <<"[]">>)
      [] t.k = "class"   -> Emit(<<t.id>>)
      [] t.k = "map"     -> Emit(<<"stdClass">>)
      [] t.k = "enum"    -> Emit(<<"Enum">>)
      [] t.k = "union"   ->
            IF nullableFromUnion(t) # NoType
            THEN Wrap(<<>>, phpDocConvertType(nullableFromUnion(t)), <<"|null">>)
            ELSE Raise("union are not supported")
      [] t.k = "date-time" -> Emit(<<"DateTime">>)
      [] OTHER -> Raise("unknown")

RECURSIVE phpConvertType(_)
phpConvertType(t) ==
    CASE t.k = "any"     -> Emit(<<"any">>)
      [] t.k = "null"    -> Emit(<<"null">>)
      [] t.k = "bool"    -> Emit(<<"bool">>)
      [] t.k = "integer" -> Emit(<<"int">>)
      [] t.k = "double"  -> Emit(<<"float">>)
      [] t.k = "string"  -> Emit(<<"string">>)
      [] t.k = "array"   -> Emit(<<"array">>)
      [] t.k \in {"class", "map"} -> Emit(<<"stdClass">>)
      [] t.k = "enum"    -> Emit(<<"string">>)
      [] t.k = "union"   ->
            IF nullableFromUnion(t) # NoType
            THEN Wrap(<<"?">>, phpConvertType(nullableFromUnion(t)), <<>>)
            ELSE Raise("union are not supported")
      [] t.k = "date-time" -> Emit(<<"string">>)
      [] OTHER -> Raise("unknown")

RECURSIVE phpGetHydratorType(_)
phpGetHydratorType(t) ==
    CASE t.k \in PrimitiveKinds -> Emit(<<"//", t.k>>)
      [] t.k = "array" -> phpGetHydratorType(t.items)
      [] t.k = "class" -> Emit(<<t.id, "Hydrator">>)
      [] t.k = "map"   -> Emit(<<"//", "stdClass">>)
      [] t.k = "enum"  -> Emit(<<"Enum", "Hydrator">>)
      [] t.k = "union" ->
            IF nullableFromUnion(t) # NoType
            THEN Wrap(<<>>, phpType(nullableFromUnion(t), FALSE), <<"Hydrator">>)
            ELSE Emit(<<"Union", "Hydrator">>)
      [] OTHER -> Emit(<<"//", "transformedStringType">>)

\* The lines phpHydrateType / phpDehydrateType emitted, or the throw.
Lines(ls) ==
    IF \E i \in DOMAIN ls : ls[i].e = "throw" THEN Raise("unknown") ELSE [lines |-> ls]

\* The types handed to the dispatchers: the basic types, arrays and
\* nullables of them, and unions of several members.
BasicTypes ==
    {TPrim(kind) : kind \in PrimitiveKinds} \cup {[k |-> "map"], [k |-> "enum"]}
    \cup {TDateTime, TClass("Address")} \cup {TTransformed(kind) : kind \in OtherTransformedKinds}

DispatchTypes ==
    BasicTypes \cup {TArray(t) : t \in BasicTypes} \cup {TNullable(t) : t \in BasicTypes \ {TPrim("null")}}
    \cup {TUnion({TPrim("integer"), TPrim("string")}),
          TUnion({TPrim("bool"), TClass("Address")}),
          TUnion({TPrim("null"), TPrim("integer"), TPrim("string")})}

DispatchInit ==
    /\ graph = MakeGraph(<<>>)
    /\ dispatch \in {[type |-> t, by |-> "none"] : t \in DispatchTypes}
    /\ phpIn = Nil /\ phpRes = Nil /\ emission = Nil /\ naming = Nil /\ files = Nil
    /\ GoIdle

Returned(by, r) ==
    /\ dispatch.by = "none"
    /\ dispatch' = [type |-> dispatch.type, by |-> by, result |-> r]
    /\ UNCHANGED <<graph, phpIn, phpRes, emission, naming, files, goVars>>

PhpType            == Returned("phpType", phpType(dispatch.type, FALSE))
PhpDocConvertType  == Returned("phpDocConvertType", phpDocConvertType(dispatch.type))
PhpConvertType     == Returned("phpConvertType", phpConvertType(dispatch.type))
PhpGetHydratorType == Returned("phpGetHydratorType", phpGetHydratorType(dispatch.type))
PhpHydrateType     ==
    Returned("phpHydrateType",
             Lines(phpHydrateType(graph, Key(<<"f">>), dispatch.type, Key(<<"f">>), GetterArgs(1))))
PhpDehydrateType   ==
    Returned("phpDehydrateType",
             Lines(phpDehydrateType(graph, Key(<<"f">>), dispatch.type,
                                    DataArgs(Key(<<"f">>), isNullable(dispatch.type)))))

DispatchNext ==
    \/ PhpType \/ PhpDocConvertType \/ PhpConvertType
    \/ PhpGetHydratorType \/ PhpHydrateType \/ PhpDehydrateType

SpecDispatch == DispatchInit /\ [][DispatchNext]_vars

\* ---- the constructor of a class and the calls of it ----------------------------------
\* emitClassDefinition, the constructor: one parameter per property, typed
\* by phpType.
Constructor(g, id) ==
    LET ps == forEachClassProperty(g, id)
    IN  [i \in DOMAIN ps |-> [type |-> phpType(ps[i].p.type, FALSE), name |-> ps[i].name]]

\* The arguments of "return new C(": those of dehydrate for the top-level
\* class, those of dehydrate<C> for another class.
NewArguments(g, id) ==
    IF id = g.top THEN emitTopDehydrateDefinition(g, id)[1].body
    ELSE emitNestedDehydrateDefinition(g, TClass(id))[1].body

ConstructProperties ==
    { ClassProperty(Key(<<"name">>), TPrim("string"), FALSE),
      ClassProperty(Key(<<"nick">>), TNullable(TPrim("string")), TRUE),
      ClassProperty(Key(<<"tags">>), TArray(TPrim("string")), FALSE),
      ClassProperty(Key(<<"created">>), TDateTime, FALSE),
      ClassProperty(Key(<<"address">>), TClass("Address"), FALSE),
      ClassProperty(Key(<<"home">>), TNullable(TClass("Address")), TRUE),
      ClassProperty(Key(<<"id">>), TUnion({TPrim("integer"), TPrim("string")}), FALSE) }

ConstructInit ==
    /\ graph \in {MakeGraph([i \in DOMAIN ps |-> Template(ps[i], {}, {})]) :
                    ps \in {q \in UNION {[1..n -> ConstructProperties] : n \in 1..MaxProps} :
                               \A i, j \in DOMAIN q : q[i] = q[j] => i = j}}
    /\ \E id \in {graph.top}
                 \cup ({getClassTypeFromType(graph, graph.classes[graph.top].props[i].type) :
                           i \in DOMAIN graph.classes[graph.top].props} \ {NoClass}) :
          emission = [kind |-> "construct", class |-> id,
                      params |-> <<>>, declared |-> FALSE, args |-> <<>>, called |-> FALSE]
    /\ phpIn = Nil /\ phpRes = Nil /\ dispatch = Nil /\ naming = Nil /\ files = Nil
    /\ GoIdle

\* emitClassDefinition reaches the constructor of the class.
EmitConstructor ==
    /\ ~emission.declared
    /\ emission' = [emission EXCEPT !.declared = TRUE,
                                    !.params = Constructor(graph, emission.class)]
    /\ UNCHANGED <<graph, phpIn, phpRes, dispatch, naming, files, goVars>>

\* emitTopDehydrateDefinition / emitNestedDehydrateDefinition reach "return new C(".
EmitNew ==
    /\ ~emission.called
    /\ emission' = [emission EXCEPT !.called = TRUE,
                                    !.args = NewArguments(graph, emission.class)]
    /\ UNCHANGED <<graph, phpIn, phpRes, dispatch, naming, files, goVars>>

ConstructNext == EmitConstructor \/ EmitNew

SpecConstruct == ConstructInit /\ [][ConstructNext]_vars

\* ---- names and their resolution ----------------------------------------------------
\* The names of one scope: the properties of a PHP class with the getter,
\* setter, hydrator and dehydrator names the renderer derives from each, or
\* the top levels of a Go package with the unmarshal name derived from each.

\* goNameStyle: every word first-upper, joined with nothing.
goNameStyle(original) == Ident(original.words, Len(original.words) > 1, TRUE)

\* The namer a renderer hands out for the names of the scope.
NameStyle(lang, original) ==
    IF lang = "go" THEN goNameStyle(original) ELSE phpNameStyle(original)

\* Mutant: the property scope does not take over the global forbidden words.
forbiddenForObjectProperties_Local == [names |-> {}, includeGlobalForbidden |-> FALSE]

forbiddenForObjectProperties == [names |-> {}, includeGlobalForbidden |-> TRUE]

\* A Name: primary (its text proposed from the display text of the graph)
\* or a DependencyName (its text proposed from prefix and another name).
Primary(order) ==
    [kind |-> "primary", order |-> order, prefix |-> "", from |-> "display"]

\* new DependencyName(namer, name.order, lookup => `<prefix>_${lookup(name)}`)
DependencyName(order, prefix) ==
    [kind |-> "derived", order |-> order, prefix |-> prefix, from |-> "lookup"]

\* Mutant: the text is derived from the JSON name of the property, not from
\* the name the property was given.
makeNamesForPropertyGetterAndSetter_FromJsonName(order) ==
    [getter     |-> [DependencyName(order, "get") EXCEPT !.from = "display"],
     setter     |-> [DependencyName(order, "set") EXCEPT !.from = "display"],
     hydrator   |-> [DependencyName(order, "hydrate") EXCEPT !.from = "display"],
     dehydrator |-> [DependencyName(order, "dehydrate") EXCEPT !.from = "display"]]

makeNamesForPropertyGetterAndSetter(order) ==
    [getter     |-> DependencyName(order, "get"),
     setter     |-> DependencyName(order, "set"),
     hydrator   |-> DependencyName(order, "hydrate"),
     dehydrator |-> DependencyName(order, "dehydrate")]

makePropertyDependencyNames(order) ==
    LET getterAndSetterNames == makeNamesForPropertyGetterAndSetter(order)
    IN  <<getterAndSetterNames.getter, getterAndSetterNames.setter,
          getterAndSetterNames.hydrator, getterAndSetterNames.dehydrator>>

makeTopLevelDependencyNames(order) == <<DependencyName(order, "unmarshal")>>

\* The words no name of any scope may take.
GlobalForbidden == {phpNameStyle(Key(<<"class">>)), goNameStyle(Key(<<"error">>))}

\* The forbidden words of the scope whose names are resolved.
ForbiddenWords(lang) ==
    IF lang = "go" THEN GlobalForbidden
    ELSE forbiddenForObjectProperties.names
         \cup (IF forbiddenForObjectProperties.includeGlobalForbidden
               THEN GlobalForbidden ELSE {})

\* The names of the scope in the order they are resolved: the primary names
\* in declaration order, then the names derived from each.
NamesOf(lang, display) ==
    [i \in DOMAIN display |-> Primary(i)]
    \o Flatten([i \in DOMAIN display |->
                   IF lang = "go" THEN makeTopLevelDependencyNames(i)
                   ELSE makePropertyDependencyNames(i)])

\* The text a name proposes, before styling: lookup gives the texts of the
\* names resolved so far.
proposeUnstyledName(n, display, lookup) ==
    IF n.kind = "primary" THEN display[n.order]
    ELSE IF n.from = "lookup" THEN Key(<<n.prefix>> \o lookup[n.order].words)
    ELSE Key(<<n.prefix>> \o display[n.order].words)

\* Disambiguation is given up after this many candidates.
MaxSuffix == 3

NoName == [words |-> <<>>, camel |-> FALSE, upper |-> FALSE]

\* The n-th candidate for a styled text: the text itself, then the text
\* with the suffix 2, 3, ...
Suffixed(t, n) ==
    IF n = 1 THEN t ELSE [t EXCEPT !.words = @ \o <<ToString(n)>>, !.camel = TRUE]

\* The first candidate that no name of the scope has and that is not forbidden.
Unique(t, taken) ==
    LET free == {n \in 1..MaxSuffix : Suffixed(t, n) \notin taken}
    IN  IF free = {} THEN NoName
        ELSE Suffixed(t, CHOOSE n \in free : \A m \in free : n <= m)

\* The text the next name of the scope resolves to.
NextText(nm) ==
    LET n == nm.names[Len(nm.texts) + 1]
    IN  Unique(NameStyle(nm.lang, proposeUnstyledName(n, nm.display, nm.texts)),
               Range(nm.texts) \cup ForbiddenWords(nm.lang))

\* The scopes: up to MaxNames of these display texts, all different.
MaxNames == 2

DisplayTexts(lang) ==
    IF lang = "go"
    THEN {Key(<<"top">>), Key(<<"unmarshal", "top">>), Key(<<"error">>),
          Ident(<<"top">>, FALSE, TRUE)}
    ELSE {Key(<<"name">>), Key(<<"first", "name">>), Ident(<<"first", "name">>, TRUE, FALSE),
          Key(<<"get", "name">>), Key(<<"class">>)}

NamesInit ==
    /\ \E lang \in {"go", "php"} :
       \E display \in {q \in UNION {[1..n -> DisplayTexts(lang)] : n \in 1..MaxNames} :
                          \A i, j \in DOMAIN q : q[i] = q[j] => i = j} :
          naming = [lang |-> lang, display |-> display,
                    names |-> NamesOf(lang, display), texts |-> <<>>, failed |-> FALSE]
    /\ files = Nil /\ emission = Nil /\ dispatch = Nil
    /\ graph = Nil /\ phpIn = Nil /\ phpRes = Nil
    /\ GoIdle

\* One name is resolved: the next in the order, whose base has its text.
Resolve(kind) ==
    /\ ~naming.failed
    /\ Len(naming.texts) < Len(naming.names)
    /\ naming.names[Len(naming.texts) + 1].kind = kind
    /\ naming' = IF NextText(naming) = NoName THEN [naming EXCEPT !.failed = TRUE]
                 ELSE [naming EXCEPT !.texts = Append(@, NextText(naming))]
    /\ UNCHANGED <<goVars, phpVars, emission, dispatch, files>>

ResolvePrimary == Resolve("primary")
ResolveDerived == Resolve("derived")

NamesNext == ResolvePrimary \/ ResolveDerived

SpecNames == NamesInit /\ [][NamesNext]_vars

\* ---- the files of one run of emitSourceStructure ----------------------------------
\* A named type or top level of the graph, as far as the file layout looks
\* at it: its kind, its name, whether it is a top level of the input, the
\* kinds of its parent types, and whether one of its properties has a type
\* phpType rejects.
Unit(kind, name, top, parents, fatal) ==
    [kind |-> kind, name |-> name, top |-> top, parents |-> parents, fatal |-> fatal]

TypeName(word) == Ident(<<word>>, FALSE, TRUE)

\* this._hydratorClassName
HydratorWord == TypeName("hydrator")

\* sourcelikeToString of a basename: a name, or a name followed by "Hydrator".
sourcelikeToString(basename) ==
    IF Len(basename) = 1 THEN basename[1]
    ELSE Ident(basename[1].words \o basename[2].words, TRUE, basename[1].upper)

NoFile == [base |-> NoName, ext |-> ""]

\* `${basename}.go`.toLowerCase() and `${basename}.php`
FileName(lang, basename) ==
    IF lang = "go"
    THEN [base |-> Ident(sourcelikeToString(basename).words, FALSE, FALSE), ext |-> "go"]
    ELSE [base |-> sourcelikeToString(basename), ext |-> "php"]

Live(f) == f.failed = ""

Fail(f, msg) == IF Live(f) THEN [f EXCEPT !.failed = msg] ELSE f

\* What a finished piece of output holds, for the pieces looked at later.
Out(f, piece) == IF Live(f) THEN [f EXCEPT !.out = Append(@, piece)] ELSE f

startFile(f, basename) ==
    IF ~Live(f) THEN f
    ELSE IF f.lang = "go" /\ ~f.opts.multiFileOutput THEN f
    ELSE IF f.current # NoFile THEN Fail(f, "Previous file wasn't finished")
    ELSE [f EXCEPT !.current = FileName(f.lang, basename),
                   !.log = Append(@, [ev |-> "start", file |-> FileName(f.lang, basename),
                                      basename |-> basename])]

endFile(f) ==
    IF ~Live(f) THEN f
    ELSE IF f.lang = "go" /\ ~f.opts.multiFileOutput THEN f
    ELSE IF f.current = NoFile THEN Fail(f, "defined: value is undefined")
    ELSE [f EXCEPT !.current = NoFile,
                   !.log = Append(@, [ev |-> "finish", file |-> f.current,
                                      basename |-> <<>>])]

justTypesOrPackage(f) == f.opts.justTypes \/ f.opts.justTypesAndPackage

\* namedTypeToNameForTopLevel(t) !== undefined
namedTypeToNameForTopLevel(t) == t.kind \in {"class", "enum", "union"}

haveNamedUnions(f) == \E i \in DOMAIN f.graph : f.graph[i].kind = "union"

\* GoRenderer
emitTopLevel(f, t) ==
    IF justTypesOrPackage(f) THEN startFile(f, <<t.name>>)
    ELSE endFile(startFile(f, <<t.name>>))

emitClass(f, c) == endFile(startFile(f, <<c.name>>))

emitEnum(f, e) == endFile(startFile(f, <<e.name>>))

emitUnion(f, un) ==
    IF justTypesOrPackage(f) THEN startFile(f, <<un.name>>)
    ELSE endFile(startFile(f, <<un.name>>))

emitEncoder(f) == endFile(startFile(f, <<Key(<<"encoder">>)>>))

emitDecoder(f) == endFile(startFile(f, <<Key(<<"decoder">>)>>))

emitHelperFunctions(f) ==
    IF haveNamedUnions(f)
    THEN endFile(startFile(f, <<Ident(<<"json", "schema", "support">>, TRUE, TRUE)>>))
    ELSE f

\* PhpRenderer
isArray(c) == "array" \in c.parents

isTopLevel(c) == c.parents = {}

\* Mutant: the class of an array is skipped after its file was started.
emitClassDefinition_SkipsLate(f, c) ==
    IF isArray(c) THEN startFile(f, <<c.name>>)
    ELSE IF c.fatal THEN Fail(startFile(f, <<c.name>>), "Error: transformedStringType.kind")
    ELSE endFile(Out(startFile(f, <<c.name>>),
                     [unit |-> "class", name |-> c.name, messageName |-> isTopLevel(c),
                      functions |-> {}]))

emitClassDefinition(f, c) ==
    IF isArray(c) THEN f
    ELSE IF c.fatal THEN Fail(startFile(f, <<c.name>>), "Error: transformedStringType.kind")
    ELSE endFile(Out(startFile(f, <<c.name>>),
                     [unit |-> "class", name |-> c.name, messageName |-> isTopLevel(c),
                      functions |-> {}]))

emitEnumDefinition(f, e) ==
    endFile(Out(startFile(f, <<e.name>>),
                [unit |-> "enum", name |-> e.name, messageName |-> FALSE, functions |-> {}]))

emitUnionDefinition(f, un) == f

emitClassHydratorDehydrator(f, c) ==
    IF ~isTopLevel(c) THEN f
    ELSE endFile(Out(startFile(f, <<c.name, HydratorWord>>),
                     [unit |-> "hydrator", name |-> c.name, messageName |-> FALSE,
                      functions |-> {"hydrate", "dehydrate"}]))

Call(fn, unit) == [fn |-> fn, unit |-> unit]

NoUnit == Unit("none", NoName, FALSE, {}, FALSE)

Calls(fn, units) == [i \in DOMAIN units |-> Call(fn, units[i])]

OfKind(units, kinds) ==
    LET Test(un) == un.kind \in kinds IN SelectSeq(units, Test)

\* emitSourceStructure: the calls it makes, in order.
emitSourceStructure(lang, opts, units) ==
    IF lang = "go"
    THEN LET Wanted(t) == /\ t.top
                          /\ \/ ~(opts.justTypes \/ opts.justTypesAndPackage)
                             \/ ~namedTypeToNameForTopLevel(t)
         IN  Calls("emitTopLevel", SelectSeq(units, Wanted))
             \o Calls("emitClass", OfKind(units, {"class"}))
             \o Calls("emitEnum", OfKind(units, {"enum"}))
             \o Calls("emitUnion", OfKind(units, {"union"}))
             \o <<Call("emitEncoder", NoUnit), Call("emitDecoder", NoUnit)>>
             \o (IF opts.justTypes \/ opts.justTypesAndPackage THEN <<>>
                 ELSE <<Call("emitHelperFunctions", NoUnit)>>)
    ELSE LET named == OfKind(units, {"class", "enum", "union"})
         IN  [i \in DOMAIN named |->
                 Call(CASE named[i].kind = "class" -> "emitClassDefinition"
                        [] named[i].kind = "enum"  -> "emitEnumDefinition"
                        [] named[i].kind = "union" -> "emitUnionDefinition", named[i])]
             \o Calls("emitClassHydratorDehydrator", OfKind(units, {"class"}))

\* The graphs: up to MaxUnits of these named types and top levels.
MaxUnits == 3

GoUnits ==
    << Unit("class", TypeName("top"), TRUE, {}, FALSE),
       Unit("class", TypeName("address"), FALSE, {"class"}, FALSE),
       Unit("class", TypeName("encoder"), FALSE, {"class"}, FALSE),
       Unit("array", TypeName("items"), TRUE, {}, FALSE),
       Unit("enum", TypeName("color"), FALSE, {"class"}, FALSE),
       Unit("union", TypeName("id"), FALSE, {"class"}, FALSE) >>

PhpUnits ==
    << Unit("class", TypeName("top"), TRUE, {}, FALSE),
       Unit("class", TypeName("node"), TRUE, {"union"}, FALSE),
       Unit("class", TypeName("address"), FALSE, {"class"}, FALSE),
       Unit("class", TypeName("item"), FALSE, {"array"}, FALSE),
       Unit("class", Ident(<<"top", "hydrator">>, TRUE, TRUE), FALSE, {"class"}, FALSE),
       Unit("class", TypeName("stamp"), FALSE, {"class"}, TRUE),
       Unit("enum", TypeName("color"), FALSE, {"class"}, FALSE),
       Unit("union", TypeName("id"), FALSE, {"class"}, FALSE) >>

RECURSIVE Pick(_, _)
Pick(units, S) ==
    IF units = <<>> THEN <<>>
    ELSE Pick(SubSeq(units, 1, Len(units) - 1), S)
         \o (IF Len(units) \in S THEN <<units[Len(units)]>> ELSE <<>>)

Graphs(units) ==
    {Pick(units, S) : S \in {T \in SUBSET DOMAIN units : Cardinality(T) \in 1..MaxUnits}}

NoOptions == [multiFileOutput |-> FALSE, justTypes |-> FALSE, justTypesAndPackage |-> FALSE]

Run(lang, opts, units) ==
    [lang |-> lang, opts |-> opts, graph |-> units,
     todo |-> emitSourceStructure(lang, opts, units),
     current |-> NoFile, log |-> <<>>, out |-> <<>>, failed |-> ""]

FilesInit ==
    /\ \/ \E opts \in [multiFileOutput : BOOLEAN, justTypes : BOOLEAN,
                       justTypesAndPackage : BOOLEAN], units \in Graphs(GoUnits) :
             files = Run("go", opts, units)
       \/ \E units \in Graphs(PhpUnits) : files = Run("php", NoOptions, units)
    /\ naming = Nil /\ emission = Nil /\ dispatch = Nil
    /\ graph = Nil /\ phpIn = Nil /\ phpRes = Nil
    /\ GoIdle

\* The next call of emitSourceStructure is fn, and it is made.
Calling(fn) ==
    /\ Live(files) /\ files.todo # <<>>
    /\ Head(files.todo).fn = fn

Called(f) ==
    /\ files' = [f EXCEPT !.todo = Tail(files.todo)]
    /\ UNCHANGED <<goVars, phpVars, emission, dispatch, naming>>

EmitTopLevel == Calling("emitTopLevel") /\ Called(emitTopLevel(files, Head(files.todo).unit))
EmitClass    == Calling("emitClass") /\ Called(emitClass(files, Head(files.todo).unit))
EmitEnum     == Calling("emitEnum") /\ Called(emitEnum(files, Head(files.todo).unit))
EmitUnion    == Calling("emitUnion") /\ Called(emitUnion(files, Head(files.todo).unit))
EmitEncoder  == Calling("emitEncoder") /\ Called(emitEncoder(files))
EmitDecoder  == Calling("emitDecoder") /\ Called(emitDecoder(files))
EmitHelperFunctions == Calling("emitHelperFunctions") /\ Called(emitHelperFunctions(files))
EmitClassDefinition ==
    Calling("emitClassDefinition") /\ Called(emitClassDefinition(files, Head(files.todo).unit))
EmitEnumDefinition ==
    Calling("emitEnumDefinition") /\ Called(emitEnumDefinition(files, Head(files.todo).unit))
EmitUnionDefinition ==
    Calling("emitUnionDefinition") /\ Called(emitUnionDefinition(files, Head(files.todo).unit))
EmitClassHydratorDehydrator ==
    /\ Calling("emitClassHydratorDehydrator")
    /\ Called(emitClassHydratorDehydrator(files, Head(files.todo).unit))

FilesNext ==
    \/ EmitTopLevel \/ EmitClass \/ EmitEnum \/ EmitUnion
    \/ EmitEncoder \/ EmitDecoder \/ EmitHelperFunctions
    \/ EmitClassDefinition \/ EmitEnumDefinition \/ EmitUnionDefinition
    \/ EmitClassHydratorDehydrator

SpecFiles == FilesInit /\ [][FilesNext]_vars

\* ---- properties of the hydrator ---------------------------------------------------
Generic == phpIn.k = "assoc"
Typed   == phpIn.k = "object"

ClassOf(t) ==
    IF t.k = "class" THEN t.id
    ELSE IF t.k = "union" /\ nullableFromUnion(t).k = "class" THEN nullableFromUnion(t).id
    ELSE NoClass

\* The JSON keys of the non-optional fields that a generic value, or a class
\* value nested in it, does not hold.
RECURSIVE MissingRequired(_, _, _)
MissingRequired(g, id, v) ==
    LET props == g.classes[id].props
    IN  UNION {
          IF props[i].json \notin DOMAIN v.m
          THEN IF props[i].isOptional THEN {} ELSE {props[i].json}
          ELSE IF ClassOf(props[i].type) # NoClass /\ v.m[props[i].json].k = "assoc"
               THEN MissingRequired(g, ClassOf(props[i].type), v.m[props[i].json])
               ELSE {} : i \in DOMAIN props}

HasRequiredFields == Generic /\ MissingRequired(graph, graph.top, phpIn) = {}

\* Two values that json_encode writes as the same document.
SameJson(a, b) == jsonRecode(a) = jsonRecode(b)

\* C1 (round trip): a generic value v holding all required fields goes
\* through dehydrate and then hydrate without an error and comes back as v;
\* a typed value t goes through hydrate, the JSON encoding and dehydrate
\* without an error and comes back as t.
C1_RoundTrip ==
    /\ HasRequiredFields =>
          /\ phpRes.hist \in {<<"dehydrate">>, <<"dehydrate", "hydrate">>} => phpRes.cur.ok
          /\ phpRes.hist = <<"dehydrate", "hydrate">> => SameJson(phpRes.cur.val, phpIn)
    /\ Typed =>
          /\ phpRes.hist \in {<<"hydrate">>, <<"hydrate", "json">>,
                              <<"hydrate", "json", "dehydrate">>} => phpRes.cur.ok
          /\ phpRes.hist = <<"hydrate", "json", "dehydrate">> => phpRes.cur.val = phpIn

\* C2 (required fields): dehydrate of a generic value fails with the
\* missing-field exception naming a missing non-optional field (of the top
\* class or of a nested class) when there is one, and succeeds when every
\* non-optional field is present under its JSON key.
C2_RequiredFieldEnforced ==
    (Generic /\ phpRes.hist = <<"dehydrate">>) =>
        LET missing == MissingRequired(graph, graph.top, phpIn)
        IN  IF missing = {} THEN phpRes.cur.ok
            ELSE /\ ~phpRes.cur.ok
                 /\ phpRes.cur.type = "RuntimeException"
                 /\ \E f \in missing : phpRes.cur.what \in {f, phpNameStyle(f)}

\* The optional fields absent from a generic value are null in the typed
\* value made from it, in the class and in the classes nested in it.
RECURSIVE AbsentOptionalsAreNull(_, _, _, _)
AbsentOptionalsAreNull(g, id, v, obj) ==
    LET ps == forEachClassProperty(g, id)
    IN  /\ obj.k = "object"
        /\ \A i \in DOMAIN ps :
              IF ps[i].jsonName \notin DOMAIN v.m
              THEN ps[i].p.isOptional => Getter(obj, i) = PNull
              ELSE (ClassOf(ps[i].p.type) # NoClass /\ v.m[ps[i].jsonName].k = "assoc") =>
                      AbsentOptionalsAreNull(g, ClassOf(ps[i].p.type),
                                             v.m[ps[i].jsonName], Getter(obj, i))

\* An optional field of the class, or of a class value nested in the value, is
\* absent from the value.
RECURSIVE HasAbsentOptional(_, _, _)
HasAbsentOptional(g, id, v) ==
    LET props == g.classes[id].props
    IN  \E i \in DOMAIN props :
          IF props[i].json \notin DOMAIN v.m THEN props[i].isOptional
          ELSE /\ ClassOf(props[i].type) # NoClass
               /\ v.m[props[i].json].k = "assoc"
               /\ HasAbsentOptional(g, ClassOf(props[i].type), v.m[props[i].json])

\* C3 (optional absent): dehydrate of a generic value that holds every
\* required field succeeds whatever optional fields are absent from it, and
\* each absent optional field is null in the result.
C3_OptionalAbsentIsNull ==
    (HasRequiredFields /\ HasAbsentOptional(graph, graph.top, phpIn)
        /\ phpRes.hist = <<"dehydrate">>) =>
        /\ phpRes.cur.ok
        /\ AbsentOptionalsAreNull(graph, graph.top, phpIn, phpRes.cur.val)

\* What a present value of a field becomes in the typed value.
ExpectedField(v) ==
    CASE v = Rome    -> RomeObj
      [] v = RomeZip -> RomeZipObj
      [] OTHER       -> v

\* C4 (nullable collapse): for a field of type Union{Null, T} the rule of T
\* is emitted; dehydrate refuses a value from which the field is absent
\* unless the field is optional; otherwise an absent or null field is null
\* in the result and a present value is converted as T.
C4_NullableCollapse ==
    LET ps == forEachClassProperty(graph, graph.top)
        Collapsed(i) == ps[i].p.type.k = "union" /\ nullableFromUnion(ps[i].p.type) # NoType
        Absence(i)   == ps[i].jsonName \notin DOMAIN phpIn.m
    IN  \A i \in DOMAIN ps : Collapsed(i) =>
          /\ phpDehydrateType(graph, ps[i].jsonName, ps[i].p.type, DataArgs(ps[i].jsonName, TRUE))
               = phpDehydrateType(graph, ps[i].jsonName, nullableFromUnion(ps[i].p.type),
                                  DataArgs(ps[i].jsonName, TRUE))
          /\ phpHydrateType(graph, ps[i].jsonName, ps[i].p.type, ps[i].name, GetterArgs(i))
               = phpHydrateType(graph, ps[i].jsonName, nullableFromUnion(ps[i].p.type),
                                ps[i].name, GetterArgs(i))
          /\ (Generic /\ phpRes.hist = <<"dehydrate">>) =>
                IF Absence(i) /\ ~ps[i].p.isOptional THEN ~phpRes.cur.ok
                ELSE HasRequiredFields =>
                        /\ phpRes.cur.ok
                        /\ Getter(phpRes.cur.val, i) =
                              IF Absence(i) THEN PNull
                              ELSE ExpectedField(phpIn.m[ps[i].jsonName])

\* The classes the properties of the top-level class lead to, and that class.
ReachedClasses(g) ==
    {g.top} \cup ({getClassTypeFromType(g, g.classes[g.top].props[i].type) :
                      i \in DOMAIN g.classes[g.top].props} \ {NoClass})

\* The functions of a hydrator class that convert a given class one way.
FunctionsOf(hyd, id, kind) == {i \in DOMAIN hyd : hyd[i].class = id /\ hyd[i].kind = kind}

\* C12 (one function per class): in the hydrator generated for a top-level
\* class, each class reached has exactly one hydrate function and exactly one
\* dehydrate function, also when several properties lead to the same class.
C12_OneFunctionPerClass ==
    \A id \in ReachedClasses(graph) : \A kind \in {"hydrate", "dehydrate"} :
        Cardinality(FunctionsOf(Hydrator, id, kind)) = 1

\* How a property type refers to a class: "direct" (the class itself),
\* "nullable" (Union{Null, class}), "array" (Array{class}) or "none".
RefersTo(t, id) ==
    IF t = TClass(id) THEN "direct"
    ELSE IF t = TNullable(TClass(id)) THEN "nullable"
    ELSE IF t = TArray(TClass(id)) THEN "array"
    ELSE "none"

\* The references of the top-level class to itself (the class cycles of the
\* graphs above).
SelfReferences(g) ==
    {RefersTo(g.classes[g.top].props[i].type, g.top) :
        i \in DOMAIN g.classes[g.top].props} \ {"none"}

\* The emission has entered the function of a class while a call for the same
\* class is in progress: the calls depend on the type alone, so the inner
\* call enters it again, without end.
Reentered ==
    /\ emission # Nil
    /\ \E i, j \in DOMAIN emission.stack :
          /\ i < j
          /\ emission.stack[i].fn = "nested" /\ emission.stack[j].fn = "nested"
          /\ emission.stack[i].class = emission.stack[j].class

MultiMemberUnion(t) ==
    t.k = "union" /\ TPrim("null") \notin t.members /\ Cardinality(t.members) >= 2

\* C15 (multi-member union is fatal): each of the converter's steps (the
\* hydrate statement, the dehydrate statement, the converted type, the doc
\* type) throws when it is handed a non-nullable union of several members.
C15_MultiMemberUnionIsFatal ==
    (dispatch # Nil /\ MultiMemberUnion(dispatch.type)
       /\ dispatch.by \in {"phpHydrateType", "phpDehydrateType",
                           "phpConvertType", "phpDocConvertType"}) =>
        Raises(dispatch.result)

\* C16 (unrecognized TransformedString is fatal): each of the six
\* dispatchers throws when it is handed a TransformedString of a kind other
\* than date-time.
C16_UnknownTransformedIsFatal ==
    (dispatch # Nil /\ dispatch.type.k \in OtherTransformedKinds /\ dispatch.by # "none") =>
        Raises(dispatch.result)

\* The DateTime a canonical date-time string denotes.
ParseISO8601(str) == IF str = "2020-01-01T00:00:00+0000" THEN "t0" ELSE "t?"

\* C17 (date-time duality): for a date-time property, hydrate writes the
\* canonical string of the typed DateTime, and dehydrate of a generic value
\* holding every required field succeeds and hands the constructor the
\* DateTime that the string of the generic value denotes.
C17_DateTimeDual ==
    LET ps == forEachClassProperty(graph, graph.top)
    IN  \A i \in DOMAIN ps : ps[i].p.type = TDateTime =>
          /\ (Typed /\ phpRes.hist = <<"hydrate">> /\ phpRes.cur.ok) =>
                phpRes.cur.val.m[ps[i].name] = PStr(formatISO8601(Getter(phpIn, i).t))
          /\ (HasRequiredFields /\ phpRes.hist = <<"dehydrate">>) =>
                /\ phpRes.cur.ok
                /\ Getter(phpRes.cur.val, i) =
                      PDateTime(ParseISO8601(Index(phpIn, ps[i].jsonName).s))

\* The typed value dehydrate should build from a generic value: the fields
\* are the values of the given properties, in that order.
FieldsFollow(props) ==
    /\ Len(phpRes.cur.val.fields) = Len(props)
    /\ \A i \in DOMAIN props :
          Getter(phpRes.cur.val, i) = ExpectedField(Index(phpIn, props[i].json))

Dehydrated == HasRequiredFields /\ phpRes.hist = <<"dehydrate">> /\ phpRes.cur.ok

\* C18 as stated: the typed value built by dehydrate holds the fields in the
\* class's declared order, whatever mix of nullable and non-nullable fields
\* the class has.
C18_DeclaredOrder ==
    Dehydrated => FieldsFollow(graph.classes[graph.top].props)

\* C18, amended: the typed value built by dehydrate holds the fields that are
\* not nullable in their declared order, followed by the nullable fields in
\* their declared order; the order depends on the class alone, not on the
\* generic value.
C18_NullableLastOrder ==
    Dehydrated =>
        LET props    == graph.classes[graph.top].props
            CanBeNull(q) == q.type.k \in {"null", "any"}
                            \/ (q.type.k = "union" /\ TPrim("null") \in q.type.members)
            Never(q) == ~CanBeNull(q)
        IN  FieldsFollow(SelectSeq(props, Never) \o SelectSeq(props, CanBeNull))

C18_Witness ==
    /\ Dehydrated
    /\ Len(graph.classes[graph.top].props) = 2
    /\ graph.classes[graph.top].props[1].json = Key(<<"nick">>)
    /\ graph.classes[graph.top].props[2].json = Key(<<"name">>)
    /\ phpRes.cur.val = PObj("Top", <<PStr("Ana"), PStr("An")>>)

\* Every property of the top-level class is an array (or a nullable array).
OnlyArrays ==
    \A i \in DOMAIN graph.classes[graph.top].props :
        UnwrapNullable(graph.classes[graph.top].props[i].type).k = "array"

\* C19 (array fields): for a class whose properties are arrays, dehydrate of
\* a generic value holding them succeeds and every field is the list of the
\* converted elements (each primitive element itself, each class element the
\* typed value of that class); hydrate of a typed value succeeds and writes,
\* for every field, a list with one generic element per typed element.
C19_ArrayElementsConverted ==
    LET ps == forEachClassProperty(graph, graph.top)
    IN  OnlyArrays =>
          /\ (HasRequiredFields /\ phpRes.hist = <<"dehydrate">>) =>
                /\ phpRes.cur.ok
                /\ \A i \in DOMAIN ps :
                      Getter(phpRes.cur.val, i) =
                         PList([n \in DOMAIN Index(phpIn, ps[i].jsonName).elems |->
                                   ExpectedField(Index(phpIn, ps[i].jsonName).elems[n])])
          /\ (Typed /\ phpRes.hist = <<"hydrate">>) =>
                /\ phpRes.cur.ok
                /\ \A i \in DOMAIN ps :
                      LET from == Getter(phpIn, i).elems
                          to   == phpRes.cur.val.m[ps[i].name]
                      IN  /\ to.k = "list" /\ Len(to.elems) = Len(from)
                          /\ \A n \in DOMAIN from :
                                IF from[n].k = "object" THEN to.elems[n].k = "stdClass"
                                ELSE to.elems[n] = from[n]

\* The class whose values a property holds: the class itself, the class
\* under a nullable, or the item class of an array.
HeldClass(t) ==
    IF UnwrapNullable(t).k = "array" THEN ClassOf(UnwrapNullable(t).items) ELSE ClassOf(t)

\* The functions a function of the hydrator calls, from its lines and its loops.
Callees(f) ==
    {f.body[i].f : i \in {j \in DOMAIN f.body : f.body[j].e = "call"}}
    \cup {f.loops[i].body.f : i \in {j \in DOMAIN f.loops : f.loops[j].body.e = "call"}}

\* C20 (recursion by call, never dangling): the top function converts every
\* property holding values of a class C by calling the function of C, and
\* every function called anywhere in the hydrator class is defined in it.
C20_CallsOwnDefinedFunction ==
    LET ps == forEachClassProperty(graph, graph.top)
    IN  \A kind \in {"hydrate", "dehydrate"} :
          /\ \A i \in DOMAIN ps : HeldClass(ps[i].p.type) # NoClass =>
                FuncName(kind, getCombinedName(graph, HeldClass(ps[i].p.type)))
                   \in Callees(Lookup(Hydrator, TopName(kind), kind)[1])
          /\ \A n \in DOMAIN Hydrator : Hydrator[n].kind = kind =>
                \A callee \in Callees(Hydrator[n]) : Lookup(Hydrator, callee, kind) # <<>>

\* C21 (collision-freedom of naming): in the scope being resolved no two
\* names (the primary names and the names derived from them) have the same
\* text, and no name has a text that is a forbidden word of the scope or of
\* the global scope around it.
C21_CollisionFree ==
    /\ \A i, j \in DOMAIN naming.texts : naming.texts[i] = naming.texts[j] => i = j
    /\ \A i \in DOMAIN naming.texts : naming.texts[i] \notin GlobalForbidden

\* Two properties whose styled texts are equal, and a property whose styled
\* text is forbidden, all resolved.
C21_Witness ==
    /\ naming.lang = "php" /\ Len(naming.texts) = Len(naming.names)
    /\ naming.display = <<Key(<<"class">>), Key(<<"first", "name">>)>>
    /\ naming.texts[1] = Ident(<<"class", "2">>, TRUE, FALSE)
    /\ naming.texts[2] = Ident(<<"first", "name">>, TRUE, FALSE)

\* C22 (derived names follow their base): every resolved derived name was
\* resolved after its base, and its text is the styled text of its prefix
\* and of the text the base was finally given (or a disambiguation of it).
C22_DerivedFollowsBase ==
    \A k \in DOMAIN naming.texts : naming.names[k].kind = "derived" =>
        LET b == naming.names[k].order
        IN  /\ b < k
            /\ \E n \in 1..MaxSuffix :
                  naming.texts[k] =
                     Suffixed(NameStyle(naming.lang,
                                        Key(<<naming.names[k].prefix>> \o naming.texts[b].words)), n)

\* A base that was renamed, and the getter derived from the new text.
C22_Witness ==
    /\ naming.lang = "php" /\ naming.display = <<Key(<<"class">>)>>
    /\ Len(naming.texts) >= 2
    /\ naming.texts[1] = Ident(<<"class", "2">>, TRUE, FALSE)
    /\ naming.texts[2] = Ident(<<"get", "class", "2">>, TRUE, FALSE)

\* C24 (unknown enum tag is an error): decoding a string into a union with
\* an enum member populates the enum member with the case of that tag when
\* the tag is declared, and fails without an enum value when it is not.
C24_UnknownEnumTagIsError ==
    (goRes.op = "UnmarshalJSON" /\ goRes.data.k = "string" /\ "enum" \in u.members) =>
        IF goRes.data.s \in EnumCases
        THEN goRes.err = NoErr /\ x["enum"] = GoEnum(goRes.data.s)
        ELSE goRes.err # NoErr /\ x["enum"] = Nil

\* The union value has one populated member, or none and the union is nullable.
OneMember(ut, xv) ==
    \/ Cardinality({kind \in Kinds : xv[kind] # Nil}) = 1
    \/ ut.nullable /\ xv = ZeroValue

\* The populated member shares its JSON shape with a member that the
\* decoder tries first: a string beside an enum, a double without fraction
\* that fits int64 beside an integer, a map beside a class.
Shadowed(ut, xv) ==
    \/ xv["string"] # Nil /\ "enum" \in ut.members
    \/ /\ xv["double"] # Nil /\ "integer" \in ut.members
       /\ xv["double"].fp = <<>> /\ FitsInt64(xv["double"].ip)
    \/ xv["map"] # Nil /\ "class" \in ut.members

\* C27 as stated: for every union value with exactly one populated member
\* (or none, for a nullable union), MarshalJSON succeeds and UnmarshalJSON of
\* its output succeeds and repopulates the same member with the same value.
C27_RoundTrip ==
    /\ (goRes.op = "MarshalJSON" /\ OneMember(u, x)) => goRes.err = NoErr
    /\ (goRes.op = "UnmarshalJSON" /\ OneMember(u, goPrev)) =>
          goRes.err = NoErr /\ x = goPrev

\* C27, amended: the same, for the union values whose populated member is
\* not shadowed by a member the decoder tries first.
C27_RoundTripUnshadowed ==
    /\ (goRes.op = "MarshalJSON" /\ OneMember(u, x)) => goRes.err = NoErr
    /\ (goRes.op = "UnmarshalJSON" /\ OneMember(u, goPrev) /\ ~Shadowed(u, goPrev)) =>
          goRes.err = NoErr /\ x = goPrev

C27_Witness ==
    /\ goRes.op = "UnmarshalJSON" /\ goRes.err = NoErr
    /\ {"string", "enum", "integer", "double"} \subseteq u.members
    /\ goPrev["double"] = GoFloat(<<7>>, <<5>>)
    /\ x = goPrev

\* emitSourceStructure has returned.
Done == Live(files) /\ files.todo = <<>>

\* Every file is finished before the next is started: the events are start,
\* finish of the same file, start, finish of the same file, ...
Alternates ==
    \A i \in DOMAIN files.log :
        IF i % 2 = 1 THEN files.log[i].ev = "start"
        ELSE files.log[i].ev = "finish" /\ files.log[i].file = files.log[i - 1].file

\* C25 (Go file protocol): in a run of GoRenderer.emitSourceStructure, for
\* every combination of the three options and every graph, no assertion of
\* startFile or endFile fails, each started file is finished before the next
\* is started, and no file is open when emitSourceStructure has returned.
C25_GoFileProtocol ==
    files.lang = "go" =>
        /\ Live(files)
        /\ Alternates
        /\ Done => files.current = NoFile

C29_DistinctFiles ==
    \A i, j \in DOMAIN files.log :
        (files.log[i].ev = "start" /\ files.log[j].ev = "start"
         /\ files.log[i].basename # files.log[j].basename) =>
            files.log[i].file # files.log[j].file

\* The pieces of the output with this unit kind for this class.
Pieces(kind, name) ==
    {i \in DOMAIN files.out : files.out[i].unit = kind /\ files.out[i].name = name}

\* C30 (hydrator per top level): after a run of the PHP renderer, every
\* class that is a top level of the input has exactly one hydrator unit
\* with hydrate and dehydrate and a class definition with MESSAGE_NAME and
\* getMessageName; a class that is not a top level has no hydrator unit.
C30_HydratorPerTopLevel ==
    (files.lang = "php" /\ Done) =>
        \A i \in DOMAIN files.graph : files.graph[i].kind = "class" =>
            IF files.graph[i].top
            THEN /\ Cardinality(Pieces("hydrator", files.graph[i].name)) = 1
                 /\ \A n \in Pieces("hydrator", files.graph[i].name) :
                       {"hydrate", "dehydrate"} \subseteq files.out[n].functions
                 /\ \E n \in Pieces("class", files.graph[i].name) : files.out[n].messageName
            ELSE Pieces("hydrator", files.graph[i].name) = {}

\* The property an argument line of "new C(" takes its value from.
ArgOf(line) == IF line.e = "var" THEN line.name ELSE line.args.key

\* C28 (constructor alignment): the emitted "new C(...)" of a dehydrate
\* function passes one argument per parameter of the constructor emitted
\* for C, and the i-th argument is taken from the property of the i-th
\* parameter.
C28_ConstructorAligned ==
    (emission.declared /\ emission.called) =>
        /\ Len(emission.args) = Len(emission.params)
        /\ \A i \in DOMAIN emission.args :
              i \in DOMAIN emission.params
              /\ phpNameStyle(ArgOf(emission.args[i])) = emission.params[i].name

====
